---- MODULE Spec2Model ----
(***************************************************************************)
(* Asset ingestion of MyEarth (src/main.py): the upload endpoint, the      *)
(* in-memory job tracker, the background processing task with its format   *)
(* handlers and external-converter adapters, and the uploads directory     *)
(* they share.                                                             *)
(*                                                                         *)
(* Scheduling.  The server is one asyncio event loop.  upload_model        *)
(* suspends at `await file.read(CHUNK_SIZE)`, so uploads interleave chunk  *)
(* by chunk.  process_model_background awaits only coroutines that never   *)
(* suspend (the converters call the blocking subprocess.run), so once a    *)
(* background task has started it holds the loop until it returns: while   *)
(* frame.pc # "idle" no request handler runs.  Only the wall clock (Tick)  *)
(* advances meanwhile.  The task is still modelled statement group by      *)
(* statement group, one update_job per step, so that every value a job     *)
(* record takes is a state of the model.                                   *)
(*                                                                         *)
(* Abstractions.  A path under uploads/ is the record of the parts its     *)
(* f-string is built from (prefix, int(time.time()), stem, suffix).  A     *)
(* file is an inode (named by the request whose open() created it), its    *)
(* content is the id of the request that last opened it with "wb", its     *)
(* size is counted in units of one chunk; a rename keeps the inode, so the *)
(* writes of a request follow its file to wherever a job has moved it.     *)
(* created_at and updated_at of a job record and the "filename" /          *)
(* "cesium_ion_asset_id" members of a result are left out.                 *)
(***************************************************************************)
EXTENDS Integers, Sequences, FiniteSets, TLC

\* ------------------------------------------------------------- bounds
MaxUploads == 2     \* upload requests in one behaviour
MaxTime == 1        \* int(time.time()) ranges over 0..MaxTime
MaxSize == 3        \* size of the largest uploaded body, in chunks
MaxMembers == 2     \* files in a package served through the I3S shim
MaxServes == 3      \* I3S requests in one behaviour

\* ------------------------------------------------- program constants
\* One unit is one chunk of 8 MB; the 5 GB limit (640 chunks) is scaled to 2.
CHUNK_SIZE == 1
MAX_FILE_SIZE == 2

None == "<None>"

JobStatus == [QUEUED |-> "queued", PROCESSING |-> "processing",
              DONE |-> "done", ERROR |-> "error"]

JobStage == [UPLOAD_SAVED |-> "upload_saved",
             EXTRACTING_SLPK |-> "extracting_slpk",
             CONVERTING_POINTCLOUD |-> "converting_pointcloud",
             GENERATING_TILESET |-> "generating_tileset",
             DONE |-> "done"]

UNIVERSAL_3D_FORMATS ==
    { ".json", ".cmpt", ".b3dm", ".i3dm", ".pnts",
      ".gltf", ".glb",
      ".obj", ".fbx", ".dae", ".3ds", ".blend", ".stl", ".ply",
      ".max", ".ma", ".mb",
      ".las", ".laz",
      ".splat",
      ".kml", ".kmz", ".citygml", ".gml", ".slpk",
      ".zip", ".7z", ".rar",
      ".jpg", ".jpeg", ".png", ".tiff", ".tif",
      ".ifc", ".rvt", ".dwg" }

\* str.lower() on the suffixes that occur in the model's inputs.
Lower(s) ==
    CASE s = ".PLY" -> ".ply"
      [] s = ".LAS" -> ".las"
      [] s = ".OBJ" -> ".obj"
      [] s = ".TXT" -> ".txt"
      [] OTHER -> s

\* -------------------------------------------------------------- paths
\* Path(name).suffix / Path(name).stem of an uploaded file name.
FileName(stem, ext) == [stem |-> stem, ext |-> ext]

\* uploads/<prefix>_<int(time.time())>_<stem><ext>
UploadsPath(prefix, ts, stem, ext) ==
    [prefix |-> prefix, ts |-> ts, stem |-> stem, ext |-> ext]

NoPath == UploadsPath("", 0 - 1, "", "")
NoName == FileName("", "")

\* Path.with_suffix(ext)
with_suffix(p, ext) == [p EXCEPT !.ext = ext]

\* f"/uploads/{filename}", f"/uploads/{dir}/tileset.json", f"/i3s/{dir}"
Url(root, name, sub) == [root |-> root, name |-> name, sub |-> sub]
NoUrl == Url("", NoPath, "")

\* ------------------------------------------------- the uploads directory
\* A directory carries its tree, the set of the files below it (each a path,
\* as the sequence of its segments), and in bytes what those files hold, as
\* <<path, content>> pairs for the files whose content matters.
FileEntry(ino, data, size) ==
    [kind |-> "file", ino |-> ino, data |-> data, size |-> size, tree |-> {},
     bytes |-> {}]
DirEntry(tree) ==
    [kind |-> "dir", ino |-> 0, data |-> 0, size |-> 0, tree |-> tree,
     bytes |-> {}]

FsPut(f, p, e) == [q \in (DOMAIN f) \cup {p} |-> IF q = p THEN e ELSE f[q]]
FsRemove(f, p) == [q \in (DOMAIN f) \ {p} |-> f[q]]
\* os.rename as shutil.move uses it: the destination is replaced
FsMove(f, src, dst) == FsPut(FsRemove(f, src), dst, f[src])
\* Path.mkdir(exist_ok=True)
FsMkdir(f, p) == IF p \in DOMAIN f THEN f ELSE FsPut(f, p, DirEntry({}))
\* open(p, "wb") by request r: the file at p is truncated, or a new one made
FsOpen(f, p, r) ==
    FsPut(f, p, FileEntry(IF p \in DOMAIN f THEN f[p].ino ELSE r, r, 0))
\* f.write(chunk) through a descriptor on inode ino, n bytes written so far
FsWrite(f, ino, n) ==
    [q \in DOMAIN f |->
        IF f[q].kind = "file" /\ f[q].ino = ino
        THEN [f[q] EXCEPT !.size = IF @ > n THEN @ ELSE n]
        ELSE f[q]]

Min(a, b) == IF a < b THEN a ELSE b

\* ------------------------------------------------------------- inputs
\* File names a client may upload.  "m.las" and "m.PLY" share a stem, "m.PLY"
\* has a suffix that lower() changes, "m.txt" is outside the allow-list.
UploadFiles ==
    { FileName("m", ".las"), FileName("m", ".PLY"), FileName("m", ".obj"),
      FileName("m", ".glb"), FileName("m", ".slpk"), FileName("m", ".zip"),
      FileName("m", ".blend"), FileName("m", ".txt") }

\* What a .slpk upload holds: a corrupt archive, or a zip with these members
\* (each member a path, as the sequence of its segments).
ZipContent(valid, members) ==
    [valid |-> valid, members |-> members, bytes |-> {}]
\* a zip with members whose content is given, as <<path, content>> pairs
ZipWith(zc, bytes) ==
    [zc EXCEPT !.members = @ \cup { b[1] : b \in bytes }, !.bytes = bytes]

\* What a file holds: raw bytes, or the gzip compression of raw bytes.  The
\* bytes of a file of a package are written as the path it has there.
Data(x) == [enc |-> "raw", data |-> x]
Gzip(x) == [enc |-> "gzip", data |-> x]
\* gzip.open(...).read(): the raw bytes of a gzip stream; BadGzipFile for
\* anything else
GunzipOk(c) == c.enc = "gzip"
Gunzip(c) == Data(c.data)
NoContent == ZipContent(FALSE, {})
SlpkContents ==
    { ZipContent(FALSE, {}),
      ZipContent(TRUE, { <<"SceneServer", "service.json">>,
                         <<"SceneServer", "layers", "0", "layer.json">> }),
      ZipContent(TRUE, { <<"metadata.json">>, <<"nodes", "root", "geometry.bin">> }) }

\* What a .zip upload holds: a corrupt archive, one with a model in it, one
\* with nothing the archive handler looks for.
ArchiveContents ==
    { ZipContent(FALSE, {}),
      ZipContent(TRUE, { <<"scene", "model.glb">>, <<"scene", "model.obj">> }),
      ZipContent(TRUE, { <<"readme.md">> }) }

\* Path(name).suffix and Path(name).stem of the names that occur in trees
Suffix(name) ==
    CASE name = "model.glb" -> ".glb"
      [] name = "model.obj" -> ".obj"
      [] name = "readme.md" -> ".md"
      [] name = "service.json" -> ".json"
      [] name = "layer.json" -> ".json"
      [] name = "metadata.json" -> ".json"
      [] name = "geometry.bin" -> ".bin"
      [] name = "tileset.json" -> ".json"
      [] name = "r.pnts" -> ".pnts"
      [] name = "main.py" -> ".py"
      [] name \in {"3dSceneLayer.json", "index.json", "3dNodeIndexDocument.json",
                   "5.json", "root.json"} -> ".json"
      [] name \in {"service.json.gz", "layer.json.gz", "index.json.gz",
                   "5.json.gz", "root.json.gz", "geometry.bin.gz"} -> ".gz"
      [] OTHER -> ""
Stem(name) ==
    CASE name = "model.glb" -> "model"
      [] name = "model.obj" -> "model"
      [] name = "readme.md" -> "readme"
      [] name = "service.json" -> "service"
      [] name = "layer.json" -> "layer"
      [] name = "metadata.json" -> "metadata"
      [] name = "geometry.bin" -> "geometry"
      [] name = "tileset.json" -> "tileset"
      [] name = "r.pnts" -> "r"
      [] name = "main.py" -> "main"
      [] name = "3dSceneLayer.json" -> "3dSceneLayer"
      [] name = "index.json" -> "index"
      [] name = "3dNodeIndexDocument.json" -> "3dNodeIndexDocument"
      [] name = "5.json" -> "5"
      [] name = "root.json" -> "root"
      [] name = "service.json.gz" -> "service.json"
      [] name = "layer.json.gz" -> "layer.json"
      [] name = "index.json.gz" -> "index.json"
      [] name = "5.json.gz" -> "5.json"
      [] name = "root.json.gz" -> "root.json"
      [] name = "geometry.bin.gz" -> "geometry.bin"
      [] OTHER -> name

\* UploadFile.size is the size the framework knows before the handler runs, or
\* None (0 here) when it does not know it.
UploadInput(file, total, declared, content) ==
    [file |-> file, total |-> total, declared |-> declared, content |-> content]

\* The uploads a client may send: every file name with a body of one chunk,
\* and a body above MAX_FILE_SIZE with its size declared or not.
UploadInputs ==
    { UploadInput(f, 1, 1, NoContent) :
        f \in UploadFiles \ {FileName("m", ".slpk"), FileName("m", ".zip")} }
    \cup { UploadInput(FileName("m", ".slpk"), 1, 1, c) : c \in SlpkContents }
    \cup { UploadInput(FileName("m", ".zip"), 1, 1, c) : c \in ArchiveContents }
    \cup { UploadInput(FileName("m", ".glb"), MaxSize, d, NoContent) : d \in {0, MaxSize} }

VARIABLES
    now,        \* int(time.time())
    fs,         \* the uploads directory: path -> entry
    jobs,       \* the job store: job_id -> record
    tasks,      \* asyncio tasks made by upload_model: job_id -> arguments, state
    req,        \* the upload requests: request -> position and locals
    frame,      \* the background task that holds the event loop, its locals
    lastPoll,   \* the answer of the GET /api/jobs/{job_id} just served
    CESIUM_ION_ACCESS_TOKEN,    \* os.getenv(...) at import: set (TRUE) or ""
    dispatched, \* history: the <<suffix, handler>> pairs process_3d_model took
    i3sLog      \* history: the GET /i3s/... requests served, with their answers

vars == <<now, fs, jobs, tasks, req, frame, lastPoll, CESIUM_ION_ACCESS_TOKEN, dispatched, i3sLog>>

Requests == 1..MaxUploads
\* job ids stand for uuid4 values: the n-th created job gets id n
JobIds == 1..MaxUploads
\* an id no job ever gets
UnknownJobId == MaxUploads + 1

NoResult ==
    [isNone |-> TRUE, success |-> FALSE, url |-> NoUrl, size |-> 0,
     original_format |-> "", processing_type |-> "", message |-> ""]

NoConversion ==
    [isNone |-> TRUE, success |-> FALSE, tileset_url |-> NoUrl, size |-> 0,
     tile_count |-> 0, error |-> ""]

\* How a subprocess.run(..., timeout=...) of a converter can end: it raises
\* FileNotFoundError (no such binary) or TimeoutExpired, or returns an exit
\* code; "wrote" says whether the expected output was written meanwhile.
ToolOutcome(raises, returncode, wrote) ==
    [raises |-> raises, returncode |-> returncode, wrote |-> wrote]

\* What is kept of a converter run for the record of the task: whether one
\* ran, how it ended, and whether the expected output was there when it had.
ToolRun(o, output) == [ran |-> TRUE, outcome |-> o, output |-> output]
NoToolRun == [ran |-> FALSE, outcome |-> ToolOutcome("", 0, FALSE), output |-> FALSE]

\* ---------------------------------------------------------- job tracker
\* create_job that starts the store afresh with the new job
create_job_fresh_store(js, job_id, filename) ==
    [j \in {job_id} |->
        [job_id |-> job_id, filename |-> filename,
         status |-> JobStatus.QUEUED, stage |-> JobStage.UPLOAD_SAVED,
         progress |-> 0,
         message |-> "Upload saved, starting processing...",
         error |-> None, result |-> NoResult]]

create_job(js, job_id, filename) ==
    [j \in (DOMAIN js) \cup {job_id} |->
        IF j = job_id
        THEN [job_id |-> job_id, filename |-> filename,
              status |-> JobStatus.QUEUED, stage |-> JobStage.UPLOAD_SAVED,
              progress |-> 0,
              message |-> "Upload saved, starting processing...",
              error |-> None, result |-> NoResult]
        ELSE js[j]]

\* dict.update(kwargs)
DictUpdate(d, kwargs) ==
    [k \in DOMAIN d |-> IF k \in DOMAIN kwargs THEN kwargs[k] ELSE d[k]]

\* update_job that writes kwargs into every record of the store
update_job_every_record(js, job_id, kwargs) ==
    [j \in DOMAIN js |-> DictUpdate(js[j], kwargs)]

update_job(js, job_id, kwargs) ==
    IF job_id \in DOMAIN js
    THEN [js EXCEPT ![job_id] = DictUpdate(@, kwargs)]
    ELSE js

NoPollBody ==
    [job_id |-> 0, filename |-> NoName, status |-> "", stage |-> "",
     progress |-> 0, message |-> "", error |-> None, result |-> NoResult]

\* GET /api/jobs/{job_id}
get_job_status(js, job_id) ==
    IF job_id \notin DOMAIN js
    THEN [code |-> 404, asked |-> job_id, body |-> NoPollBody]
    ELSE [code |-> 200, asked |-> job_id,
          body |-> [job_id |-> js[job_id].job_id,
                    filename |-> js[job_id].filename,
                    status |-> js[job_id].status,
                    stage |-> js[job_id].stage,
                    progress |-> js[job_id].progress,
                    message |-> js[job_id].message,
                    error |-> js[job_id].error,
                    result |-> js[job_id].result]]

NoPoll == [code |-> 0, asked |-> 0, body |-> NoPollBody]

\* ------------------------------------------------------- initial state
IdleReq ==
    [pc |-> "idle", file |-> NoName, body |-> 0, file_ext |-> "", left |-> 0,
     bytes_written |-> 0, original_path |-> NoPath, fd |-> 0, code |-> 0,
     detail |-> "", job_id |-> 0, status |-> "", content |-> NoContent]

IdleFrame ==
    [pc |-> "idle", job |-> 0, file_path |-> NoPath, file_ext |-> "",
     original_filename |-> NoName, output_dir |-> NoPath, gltf_path |-> NoPath,
     conversion_result |-> NoConversion,
     ret |-> [isNone |-> TRUE, url |-> NoUrl, size |-> 0, processing_type |-> "",
              message |-> ""],
     exc |-> [type |-> "", status_code |-> 0, detail |-> ""]]

Init ==
    /\ now = 0
    /\ fs = << >>
    /\ jobs = << >>
    /\ tasks = << >>
    /\ req = [r \in Requests |-> IdleReq]
    /\ frame = IdleFrame
    /\ lastPoll = NoPoll
    /\ CESIUM_ION_ACCESS_TOKEN \in BOOLEAN
    /\ dispatched = {}
    /\ i3sLog = << >>

LoopFree == frame.pc = "idle"

\* the wall clock; it also advances while a converter subprocess runs
Tick ==
    /\ now < MaxTime
    /\ now' = now + 1
    /\ UNCHANGED <<fs, jobs, tasks, req, frame, lastPoll, CESIUM_ION_ACCESS_TOKEN, dispatched, i3sLog>>

\* ------------------------------------------------------------- upload
\* is_supported that takes every file name with a suffix
is_supported_any_suffix(file_ext) == file_ext # ""

\* `file_ext not in UNIVERSAL_3D_FORMATS` rejects
is_supported(file_ext) == file_ext \in UNIVERSAL_3D_FORMATS

Respond(r, rec, code, detail) ==
    [rec EXCEPT !.pc = "responded", !.code = code, !.detail = detail]

\* POST /api/upload-model up to the first `await file.read(CHUNK_SIZE)`:
\* the allow-list check, the declared-size check, open(original_path, "wb").
upload_model(r) ==
    /\ LoopFree
    /\ req[r].pc = "idle"
    /\ \A q \in 1..(r - 1) : req[q].pc # "idle"
    /\ \E up \in UploadInputs :
         LET file == up.file
             total == up.total
             declared == up.declared
             file_ext == Lower(file.ext)
             original_path == UploadsPath("original", now, file.stem, file.ext)
             got == [req[r] EXCEPT !.file = file, !.body = total,
                                    !.file_ext = file_ext,
                                    !.content = up.content]
         IN  IF ~is_supported(file_ext)
             THEN /\ req' = [req EXCEPT ![r] =
                               Respond(r, got, 400,
                                   "Unsupported format: " \o file_ext
                                   \o ". Supported formats: .json, .cmpt, .b3dm, .i3dm, .pnts, .gltf, .glb, .obj, .fbx, .dae... and more")]
                  /\ fs' = fs
             ELSE IF declared # 0 /\ declared > MAX_FILE_SIZE
             THEN /\ req' = [req EXCEPT ![r] =
                               Respond(r, got, 400, "File too large. Maximum size: 5GB")]
                  /\ fs' = fs
             ELSE /\ fs' = FsOpen(fs, original_path, r)
                  /\ req' = [req EXCEPT ![r] =
                               [got EXCEPT !.pc = "streaming", !.left = total,
                                           !.original_path = original_path,
                                           !.fd = fs'[original_path].ino]]
    /\ lastPoll' = NoPoll
    /\ UNCHANGED <<now, jobs, tasks, frame, CESIUM_ION_ACCESS_TOKEN, dispatched, i3sLog>>

\* One turn of the streaming loop with a non-empty chunk: the size check, then
\* the write.  Above the limit the partial file is unlinked and 400 raised.
upload_model_chunk(r) ==
    /\ LoopFree
    /\ req[r].pc = "streaming"
    /\ req[r].left > 0
    /\ LET len == Min(CHUNK_SIZE, req[r].left)
           bytes_written == req[r].bytes_written + len
           original_path == req[r].original_path
       IN  IF bytes_written > MAX_FILE_SIZE
           THEN /\ fs' = IF original_path \in DOMAIN fs
                         THEN FsRemove(fs, original_path) ELSE fs
                /\ req' = [req EXCEPT ![r] =
                             Respond(r, [@ EXCEPT !.bytes_written = bytes_written],
                                     400, "File too large. Maximum size: 5GB")]
           ELSE /\ fs' = FsWrite(fs, req[r].fd, bytes_written)
                /\ req' = [req EXCEPT ![r] =
                             [@ EXCEPT !.bytes_written = bytes_written,
                                       !.left = @ - len]]
    /\ lastPoll' = NoPoll
    /\ UNCHANGED <<now, jobs, tasks, frame, CESIUM_ION_ACCESS_TOKEN, dispatched, i3sLog>>

NewJobId == Cardinality(DOMAIN jobs) + 1

\* The empty chunk ends the loop: create_job, asyncio.create_task, 202.
upload_model_accept(r) ==
    /\ LoopFree
    /\ req[r].pc = "streaming"
    /\ req[r].left = 0
    /\ LET job_id == NewJobId
       IN  /\ jobs' = create_job(jobs, job_id, req[r].file)
           /\ tasks' = [j \in (DOMAIN tasks) \cup {job_id} |->
                          IF j = job_id
                          THEN [state |-> "pending",
                                file_path |-> req[r].original_path,
                                file_ext |-> req[r].file_ext,
                                original_filename |-> req[r].file,
                                request |-> r, tool |-> NoToolRun]
                          ELSE tasks[j]]
           /\ req' = [req EXCEPT ![r] =
                        [Respond(r, @, 202, "Upload complete, processing started")
                           EXCEPT !.job_id = job_id, !.status = "processing"]]
    /\ lastPoll' = NoPoll
    /\ UNCHANGED <<now, fs, frame, CESIUM_ION_ACCESS_TOKEN, dispatched, i3sLog>>

\* ------------------------------------------------- exceptions, results
Exception(type, text) == [type |-> type, status_code |-> 0, detail |-> text]
HTTPException(status_code, detail) ==
    [type |-> "HTTPException", status_code |-> status_code, detail |-> detail]
NoExc == Exception("", "")

\* str(e); starlette's HTTPException prints as "<status_code>: <detail>"
str(e) ==
    IF e.type = "HTTPException"
    THEN ToString(e.status_code) \o ": " \o e.detail
    ELSE e.detail

\* what shutil.move, Path.unlink, zipfile.ZipFile raise on a missing path
FileNotFoundError == Exception("FileNotFoundError", "[Errno 2] No such file or directory")
BadZipFile == Exception("BadZipFile", "File is not a zip file")

\* the dict a handler returns
ProcessingResult(url, size, processing_type, message) ==
    [isNone |-> FALSE, url |-> url, size |-> size,
     processing_type |-> processing_type, message |-> message]
NoReturn ==
    [isNone |-> TRUE, url |-> NoUrl, size |-> 0, processing_type |-> "",
     message |-> ""]

\* ------------------------------------------------------------ dispatch
\* Strategy with '.blend' listed in the branch of the Blender conversion
Strategy_blend_as_mesh(file_ext) ==
    CASE file_ext \in {".json", ".cmpt", ".b3dm", ".i3dm", ".pnts"} -> "handle_3d_tiles"
      [] file_ext \in {".gltf", ".glb"} -> "handle_gltf"
      [] file_ext \in {".las", ".laz", ".ply"} -> "handle_point_cloud"
      [] file_ext \in {".splat"} -> "handle_gaussian_splats"
      [] file_ext \in {".obj", ".fbx", ".dae", ".3ds", ".stl", ".blend"} -> "handle_traditional_3d"
      [] file_ext \in {".kml", ".kmz", ".citygml", ".gml"} -> "handle_geospatial"
      [] file_ext \in {".slpk"} -> "handle_slpk"
      [] file_ext \in {".zip", ".7z", ".rar"} -> "handle_archive"
      [] file_ext \in {".jpg", ".jpeg", ".png", ".tiff", ".tif"} -> "handle_photogrammetry"
      [] file_ext \in {".ifc", ".rvt", ".dwg"} -> "handle_bim"
      [] OTHER -> "handle_cesium_ion_conversion"

\* the branch process_3d_model takes for a lower-cased suffix
Strategy(file_ext) ==
    CASE file_ext \in {".json", ".cmpt", ".b3dm", ".i3dm", ".pnts"} -> "handle_3d_tiles"
      [] file_ext \in {".gltf", ".glb"} -> "handle_gltf"
      [] file_ext \in {".las", ".laz", ".ply"} -> "handle_point_cloud"
      [] file_ext \in {".splat"} -> "handle_gaussian_splats"
      [] file_ext \in {".obj", ".fbx", ".dae", ".3ds", ".stl"} -> "handle_traditional_3d"
      [] file_ext \in {".kml", ".kmz", ".citygml", ".gml"} -> "handle_geospatial"
      [] file_ext \in {".slpk"} -> "handle_slpk"
      [] file_ext \in {".zip", ".7z", ".rar"} -> "handle_archive"
      [] file_ext \in {".jpg", ".jpeg", ".png", ".tiff", ".tif"} -> "handle_photogrammetry"
      [] file_ext \in {".ifc", ".rvt", ".dwg"} -> "handle_bim"
      [] OTHER -> "handle_cesium_ion_conversion"

\* The handlers that only move the upload to uploads/<prefix>_<ts>_<name>:
\* handle_3d_tiles, handle_gltf, handle_geospatial, and the handlers whose
\* converter is a stub returning False (splats, BIM) or absent (images).
FlatHandlers ==
    { "handle_3d_tiles", "handle_gltf", "handle_geospatial",
      "handle_gaussian_splats", "handle_photogrammetry", "handle_bim" }

FlatPrefix(h) ==
    CASE h = "handle_3d_tiles" -> "3dtiles"
      [] h = "handle_gltf" -> "gltf"
      [] h = "handle_geospatial" -> "geospatial"
      [] h = "handle_gaussian_splats" -> "splats"
      [] h = "handle_photogrammetry" -> "photogrammetry"
      [] OTHER -> "bim"

FlatType(h) ==
    CASE h = "handle_3d_tiles" -> "3d_tiles"
      [] h = "handle_gltf" -> "gltf"
      [] h = "handle_geospatial" -> "geospatial_raw"
      [] h = "handle_gaussian_splats" -> "gaussian_splats_raw"
      [] h = "handle_photogrammetry" -> "photogrammetry_raw"
      [] OTHER -> "bim_raw"

FlatMessage(h) ==
    CASE h = "handle_3d_tiles" -> "3D Tiles file ready for CesiumJS"
      [] h = "handle_gltf" -> "glTF file ready for CesiumJS"
      [] h = "handle_geospatial" -> "Geospatial file (may need client-side processing)"
      [] h = "handle_gaussian_splats" -> "Gaussian splats file (may need client-side processing)"
      [] h = "handle_photogrammetry" -> "Image file (photogrammetry processing not yet implemented)"
      [] OTHER -> "BIM file (conversion not available)"

\* ------------------------------------------------- background task
Frame(pc, job, t) ==
    [pc |-> pc, job |-> job, file_path |-> t.file_path, file_ext |-> t.file_ext,
     original_filename |-> t.original_filename,
     output_dir |-> NoPath, gltf_path |-> NoPath,
     conversion_result |-> NoConversion,
     ret |-> NoReturn, exc |-> NoExc]

\* start_update without the status: the job stays Queued while it is processed
start_update_keeps_status ==
    [progress |-> 0, message |-> "Starting processing..."]

\* the first update_job of process_model_background
start_update ==
    [status |-> JobStatus.PROCESSING, progress |-> 0,
     message |-> "Starting processing..."]

\* The task starts: the first statement of process_model_background.
process_model_background(j) ==
    /\ LoopFree
    /\ j \in DOMAIN tasks
    /\ tasks[j].state = "pending"
    /\ tasks' = [tasks EXCEPT ![j].state = "running"]
    /\ frame' = Frame("process_3d_model", j, tasks[j])
    /\ jobs' = update_job(jobs, j, start_update)
    /\ lastPoll' = NoPoll
    /\ UNCHANGED <<now, fs, req, CESIUM_ION_ACCESS_TOKEN, dispatched, i3sLog>>

\* process_3d_model: the branch on the suffix, with the stage update of the
\* point-cloud and SLPK branches.
process_3d_model ==
    /\ frame.pc = "process_3d_model"
    /\ LET h == Strategy(frame.file_ext)
       IN  /\ frame' = [frame EXCEPT !.pc = IF h \in FlatHandlers
                                            THEN "handle_flat" ELSE h]
           /\ jobs' = CASE h = "handle_point_cloud" ->
                             update_job(jobs, frame.job,
                                 [stage |-> JobStage.CONVERTING_POINTCLOUD,
                                  progress |-> 20,
                                  message |-> "Converting point cloud to 3D Tiles..."])
                        [] h = "handle_slpk" ->
                             update_job(jobs, frame.job,
                                 [stage |-> JobStage.EXTRACTING_SLPK,
                                  progress |-> 20,
                                  message |-> "Extracting SLPK to I3S format..."])
                        [] OTHER -> jobs
           /\ dispatched' = dispatched \cup { <<frame.file_ext, h>> }
    /\ UNCHANGED <<now, fs, tasks, req, lastPoll, CESIUM_ION_ACCESS_TOKEN, i3sLog>>

\* shutil.move(file_path, uploads/<prefix>_<ts>_<original_filename>) and the
\* returned dict; FileNotFoundError when file_path is gone (the handlers that
\* catch it move again in their except branch, which raises again).
MoveUpload(f, file_path, new_path, processing_type, message) ==
    IF file_path \in DOMAIN f
    THEN [fs |-> FsMove(f, file_path, new_path),
          ret |-> ProcessingResult(Url("uploads", new_path, ""),
                                   f[file_path].size, processing_type, message),
          exc |-> NoExc]
    ELSE [fs |-> f, ret |-> NoReturn, exc |-> FileNotFoundError]

handle_flat ==
    /\ frame.pc = "handle_flat"
    /\ LET h == Strategy(frame.file_ext)
           name == frame.original_filename
           new_path == UploadsPath(FlatPrefix(h), now, name.stem, name.ext)
           out == MoveUpload(fs, frame.file_path, new_path, FlatType(h), FlatMessage(h))
       IN  /\ fs' = out.fs
           /\ frame' = [frame EXCEPT !.pc = "finish", !.ret = out.ret, !.exc = out.exc]
    /\ UNCHANGED <<now, jobs, tasks, req, lastPoll, CESIUM_ION_ACCESS_TOKEN, dispatched, i3sLog>>

\* ------------------------------------------------ external converters
ToolOutcomes ==
    { ToolOutcome("FileNotFoundError", 0, FALSE) }
    \cup { ToolOutcome("TimeoutExpired", 0, w) : w \in BOOLEAN }
    \cup { ToolOutcome("", rc, w) : rc \in {0, 1}, w \in BOOLEAN }

\* a converter writes its output only from an input that is there
Possible(o, f, input_path) == o.wrote => input_path \in DOMAIN f

TilesetFiles == { <<"tileset.json">>, <<"r.pnts">> }

\* shutil.rmtree / Path.unlink guarded by exists() or by try/except
FsDiscard(f, p) == IF p \in DOMAIN f THEN FsRemove(f, p) ELSE f

\* ConversionSuccess with the URL of the directory, not of its tileset.json
ConversionSuccess_directory_url(output_dirname, size, tile_count) ==
    [isNone |-> FALSE, success |-> TRUE,
     tileset_url |-> Url("uploads", output_dirname, ""),
     size |-> size, tile_count |-> tile_count, error |-> ""]

\* the dict convert_point_cloud_to_3dtiles returns
ConversionSuccess(output_dirname, size, tile_count) ==
    [isNone |-> FALSE, success |-> TRUE,
     tileset_url |-> Url("uploads", output_dirname, "tileset.json"),
     size |-> size, tile_count |-> tile_count, error |-> ""]
ConversionFailure(error) ==
    [isNone |-> FALSE, success |-> FALSE, tileset_url |-> NoUrl, size |-> 0,
     tile_count |-> 0, error |-> error]

\* py3dtiles ended without an exception and with `result.returncode == 0`
py3dtiles_ok(o) == o.raises = "" /\ o.returncode = 0

\* `tileset_path.exists()`
tileset_exists(f, output_dir) ==
    output_dir \in DOMAIN f /\ <<"tileset.json">> \in f[output_dir].tree

\* "All conversion methods failed": the output directory is removed and a
\* failure returned.
convert_point_cloud_failed(f, output_dir) ==
    [fs |-> FsDiscard(f, output_dir),
     conversion_result |->
         ConversionFailure("py3dtiles not installed or failed. Install with: pip install py3dtiles[las]")]

\* handle_point_cloud_result with the fallback that follows the raise in the
\* source taken instead of it: the raw file is moved and served
handle_point_cloud_result_fallback(f, file_path, conversion_result) ==
    IF conversion_result.success
    THEN [fs |-> f,
          ret |-> ProcessingResult(conversion_result.tileset_url,
                                   conversion_result.size, "point_cloud_3dtiles",
                                   "Point cloud converted to 3D Tiles ("
                                   \o ToString(conversion_result.tile_count)
                                   \o " tiles)"),
          exc |-> NoExc]
    ELSE MoveUpload(f, file_path, [file_path EXCEPT !.prefix = "pointcloud"],
                    "point_cloud_fallback",
                    "Point cloud file (conversion failed, using original)")

\* handle_point_cloud once the adapter has returned: the result dict, or the
\* original removed and HTTP 400 raised.
handle_point_cloud_result(f, file_path, conversion_result) ==
    IF conversion_result.success
    THEN [fs |-> f,
          ret |-> ProcessingResult(conversion_result.tileset_url,
                                   conversion_result.size, "point_cloud_3dtiles",
                                   "Point cloud converted to 3D Tiles ("
                                   \o ToString(conversion_result.tile_count)
                                   \o " tiles)"),
          exc |-> NoExc]
    ELSE [fs |-> FsDiscard(f, file_path),
          ret |-> NoReturn,
          exc |-> HTTPException(400,
                      "Point clouds must be converted to 3D Tiles to render in Cesium. Conversion failed: "
                      \o conversion_result.error
                      \o ". Please upload LAS/LAZ with py3dtiles installed, or upload pre-generated tileset.json.")]

handle_point_cloud ==
    /\ frame.pc = "handle_point_cloud"
    /\ jobs' = update_job(jobs, frame.job,
                   [progress |-> 30, message |-> "Starting point cloud conversion..."])
    /\ frame' = [frame EXCEPT !.pc = "convert_point_cloud_to_3dtiles"]
    /\ UNCHANGED <<now, fs, tasks, req, lastPoll, CESIUM_ION_ACCESS_TOKEN, dispatched, i3sLog>>

\* the adapter up to the subprocess: the output directory and the stage update
convert_point_cloud_to_3dtiles ==
    /\ frame.pc = "convert_point_cloud_to_3dtiles"
    /\ LET output_dir == UploadsPath("pointcloud", now,
                                     frame.original_filename.stem, "")
       IN  /\ fs' = FsMkdir(fs, output_dir)
           /\ frame' = [frame EXCEPT !.pc = "py3dtiles", !.output_dir = output_dir]
    /\ jobs' = update_job(jobs, frame.job,
                   [stage |-> JobStage.GENERATING_TILESET, progress |-> 40,
                    message |-> "Running py3dtiles converter..."])
    /\ UNCHANGED <<now, tasks, req, lastPoll, CESIUM_ION_ACCESS_TOKEN, dispatched, i3sLog>>

\* subprocess.run(["py3dtiles", "convert", ...], timeout=600) and the branch
\* on how it ended
py3dtiles_run ==
    /\ frame.pc = "py3dtiles"
    /\ \E o \in ToolOutcomes :
         /\ Possible(o, fs, frame.file_path)
         /\ LET fs1 == IF o.wrote
                       THEN [fs EXCEPT ![frame.output_dir].tree = @ \cup TilesetFiles]
                       ELSE fs
            IN  /\ tasks' = [tasks EXCEPT ![frame.job].tool =
                                ToolRun(o, <<"tileset.json">> \in fs1[frame.output_dir].tree)]
                /\ IF py3dtiles_ok(o)
                   THEN /\ fs' = fs1
                        /\ jobs' = update_job(jobs, frame.job,
                                       [progress |-> 70,
                                        message |-> "Conversion complete, finalizing..."])
                        /\ frame' = [frame EXCEPT !.pc = "tileset_check"]
                   ELSE LET failed == convert_point_cloud_failed(fs1, frame.output_dir)
                            out == handle_point_cloud_result(failed.fs, frame.file_path,
                                                             failed.conversion_result)
                        IN  /\ fs' = out.fs
                            /\ jobs' = jobs
                            /\ frame' = [frame EXCEPT !.pc = "finish",
                                   !.conversion_result = failed.conversion_result,
                                   !.ret = out.ret, !.exc = out.exc]
    /\ UNCHANGED <<now, req, lastPoll, CESIUM_ION_ACCESS_TOKEN, dispatched, i3sLog>>

\* after exit code 0: success only with tileset.json in the output directory
tileset_check ==
    /\ frame.pc = "tileset_check"
    /\ IF tileset_exists(fs, frame.output_dir)
       THEN LET tile_count == Cardinality({ p \in fs[frame.output_dir].tree :
                                                Suffix(p[Len(p)]) = ".pnts" })
                total_size == Cardinality(fs[frame.output_dir].tree)
                fs1 == FsDiscard(fs, frame.file_path)
                conversion_result == ConversionSuccess(frame.output_dir, total_size,
                                                       tile_count)
                out == handle_point_cloud_result(fs1, frame.file_path,
                                                 conversion_result)
            IN  /\ fs' = out.fs
                /\ jobs' = update_job(jobs, frame.job,
                               [progress |-> 90,
                                message |-> "Generated " \o ToString(tile_count)
                                            \o " tiles"])
                /\ frame' = [frame EXCEPT !.pc = "finish",
                                          !.conversion_result = conversion_result,
                                          !.ret = out.ret, !.exc = out.exc]
       ELSE LET failed == convert_point_cloud_failed(fs, frame.output_dir)
                out == handle_point_cloud_result(failed.fs, frame.file_path,
                                                 failed.conversion_result)
            IN  /\ fs' = out.fs
                /\ jobs' = jobs
                /\ frame' = [frame EXCEPT !.pc = "finish",
                                          !.conversion_result = failed.conversion_result,
                                          !.ret = out.ret, !.exc = out.exc]
    /\ UNCHANGED <<now, tasks, req, lastPoll, CESIUM_ION_ACCESS_TOKEN, dispatched, i3sLog>>

\* uploads/temp_conversion_script.py
script_path == UploadsPath("temp_conversion_script", 0, "", ".py")

\* the bytes a converter makes of the upload of request r
Converted(r) == 0 - r

\* convert_to_gltf that looks at the output file only, not at how blender ended
convert_to_gltf_output_only(o, output_path, output_exists) ==
    IF output_exists THEN output_path ELSE NoPath

\* what convert_to_gltf returns: output_path, or None
convert_to_gltf(o, output_path, output_exists) ==
    IF o.raises = "" /\ o.returncode = 0 /\ output_exists
    THEN output_path
    ELSE NoPath

\* handle_traditional_3d up to the return of convert_to_gltf: the script is
\* written, blender runs (timeout=120), the script is removed unless
\* subprocess.run raised.
handle_traditional_3d ==
    /\ frame.pc = "handle_traditional_3d"
    /\ \E o \in ToolOutcomes :
         /\ Possible(o, fs, frame.file_path)
         /\ LET output_path == with_suffix(frame.file_path, ".glb")
                fs1 == FsPut(fs, script_path, FileEntry(0, 0, 1))
                fs2 == IF o.wrote
                       THEN FsPut(fs1, output_path,
                                  FileEntry(0, Converted(fs[frame.file_path].data), 1))
                       ELSE fs1
                fs3 == IF o.raises = "" THEN FsRemove(fs2, script_path) ELSE fs2
            IN  /\ fs' = fs3
                /\ tasks' = [tasks EXCEPT ![frame.job].tool =
                                ToolRun(o, output_path \in DOMAIN fs3)]
                /\ frame' = [frame EXCEPT
                       !.pc = "traditional_finish",
                       !.gltf_path = convert_to_gltf(o, output_path,
                                                     output_path \in DOMAIN fs3)]
    /\ UNCHANGED <<now, jobs, req, lastPoll, CESIUM_ION_ACCESS_TOKEN, dispatched, i3sLog>>

\* handle_traditional_3d after convert_to_gltf: the converted file is moved
\* and the original removed, or the original is moved as it is.
traditional_result(f, t, file_path, gltf_path, name) ==
    IF gltf_path # NoPath /\ gltf_path \in DOMAIN f
    THEN LET new_path == UploadsPath("converted", t, name.stem, ".glb")
             f1 == FsMove(f, gltf_path, new_path)
         IN  IF file_path \in DOMAIN f1
             THEN [fs |-> FsRemove(f1, file_path),
                   ret |-> ProcessingResult(Url("uploads", new_path, ""),
                                            f1[new_path].size, "converted_gltf",
                                            "Converted to GLB"),
                   exc |-> NoExc]
             ELSE [fs |-> f1, ret |-> NoReturn, exc |-> FileNotFoundError]
    ELSE MoveUpload(f, file_path,
                    UploadsPath("traditional", t, name.stem, name.ext),
                    "traditional_fallback", "Original file (conversion failed)")

traditional_finish ==
    /\ frame.pc = "traditional_finish"
    /\ LET out == traditional_result(fs, now, frame.file_path, frame.gltf_path,
                                     frame.original_filename)
       IN  /\ fs' = out.fs
           /\ frame' = [frame EXCEPT !.pc = "finish", !.ret = out.ret, !.exc = out.exc]
    /\ UNCHANGED <<now, jobs, tasks, req, lastPoll, CESIUM_ION_ACCESS_TOKEN, dispatched, i3sLog>>

\* ---------------------------------------------------------------- SLPK
\* zipfile.ZipFile(file_path) opens: the file is there, fully written by the
\* request that opened it last, and that request sent a zip
IsZip(f, p) ==
    /\ p \in DOMAIN f
    /\ f[p].kind = "file"
    /\ f[p].data \in Requests
    /\ req[f[p].data].content.valid
    /\ req[f[p].data].pc # "idle"
    /\ req[f[p].data].left = 0

\* what the file m of the directory entry e holds
ContentOf(e, m) ==
    LET hits == { b \in e.bytes : b[1] = m }
    IN  IF hits = {} THEN Data(m) ELSE (CHOOSE b \in hits : TRUE)[2]

\* ZipFile.extractall(dir): the members are written, over what is there
extractall(e, zc) ==
    [e EXCEPT !.tree = @ \cup zc.members,
              !.bytes = { b \in @ : b[1] \notin zc.members } \cup zc.bytes]

\* the directories and all the paths of a tree given by its files
TreeDirs(T) == UNION { { SubSeq(m, 1, k) : k \in 1..(Len(m) - 1) } : m \in T }
TreePaths(T) == T \cup TreeDirs(T)
Named(T, name) == { p \in TreePaths(T) : p[Len(p)] = name }
Parent(p) == SubSeq(p, 1, Len(p) - 1)

\* The detection strategies 0..5 of handle_slpk, tried in this order; every
\* one yields the same URL, so the outcome is whether any of them matches.
I3sDetected(T) ==
    LET Strategy0 == <<"3dSceneLayer.json">> \in TreePaths(T)
        Strategy1 == Named(T, "SceneServer") # {}
        Strategy2 ==
            \E s \in Named(T, "service.json") :
                Append(Parent(s), "layers") \in TreePaths(T)
        Strategy3 ==
            \E l \in TreeDirs(T) :
                /\ l[Len(l)] = "layers"
                /\ Append(l, "0") \in TreeDirs(T)
                /\ \/ Append(Append(l, "0"), "3dSceneLayer.json") \in TreePaths(T)
                   \/ Append(Append(l, "0"), "layer.json") \in TreePaths(T)
        Strategy4 == Named(T, "3dSceneLayer.json") # {}
        Strategy5 == Named(T, "layer.json") # {}
    IN  \/ Strategy0 \/ Strategy1 \/ Strategy2
        \/ Strategy3 \/ Strategy4 \/ Strategy5

\* rglob("*.json.gz") matches a file of this name
IsJsonGz(name) == Suffix(name) = ".gz" /\ Suffix(Stem(name)) = ".json"
\* gz_file.with_suffix('')
json_file(gz_file) == [gz_file EXCEPT ![Len(gz_file)] = Stem(@)]

\* "Decompress all *.json.gz files to *.json": for each one, open(json_file,
\* 'wb') makes or empties the target, f_in.read() decompresses, the .gz is
\* unlinked; what is raised on the way (the target is a directory, the .gz
\* is no gzip stream) skips the rest for that file.
decompress_json_gz(e) ==
    LET gz == { m \in e.tree : IsJsonGz(m[Len(m)]) }
        opened == { m \in gz : json_file(m) \notin TreeDirs(e.tree) }
        done == { m \in opened : GunzipOk(ContentOf(e, m)) }
        failed == opened \ done
        written == { json_file(m) : m \in opened }
    IN  [e EXCEPT
           !.tree = (@ \ done) \cup written,
           !.bytes = { b \in @ : b[1] \notin done \cup written }
                     \cup { <<json_file(m), Gunzip(ContentOf(e, m))>> : m \in done }
                     \cup { <<json_file(m), Data(<< >>)>> : m \in failed }]

\* handle_slpk up to the extraction: the extraction directory, progress 30
handle_slpk ==
    /\ frame.pc = "handle_slpk"
    /\ LET extract_dir == UploadsPath("slpk", now, frame.original_filename.stem, "")
       IN  /\ fs' = FsMkdir(fs, extract_dir)
           /\ frame' = [frame EXCEPT !.pc = "slpk_extract", !.output_dir = extract_dir]
    /\ jobs' = update_job(jobs, frame.job,
                   [progress |-> 30, message |-> "Extracting SLPK archive..."])
    /\ UNCHANGED <<now, tasks, req, lastPoll, CESIUM_ION_ACCESS_TOKEN, dispatched, i3sLog>>

\* slpk_raw that leaves the extraction directory where it is
slpk_raw_keeps_directory(f, t, file_path, extract_dir, name) ==
    MoveUpload(f, file_path,
               UploadsPath("slpk", t, name.stem, name.ext),
               "slpk_raw", "SLPK could not be extracted; serving raw file")

\* The except branch of handle_slpk: the extraction directory is removed and
\* the package moved to uploads/slpk_<ts>_<name> and returned as "slpk_raw".
slpk_raw(f, t, file_path, extract_dir, name) ==
    MoveUpload(FsDiscard(f, extract_dir), file_path,
               UploadsPath("slpk", t, name.stem, name.ext),
               "slpk_raw", "SLPK could not be extracted; serving raw file")

\* extractall, then progress 60; a package that does not open as a zip goes
\* to the except branch
slpk_extract ==
    /\ frame.pc = "slpk_extract"
    /\ IF IsZip(fs, frame.file_path)
       THEN /\ fs' = [fs EXCEPT ![frame.output_dir] =
                         decompress_json_gz(
                             extractall(@, req[fs[frame.file_path].data].content))]
            /\ jobs' = update_job(jobs, frame.job,
                           [progress |-> 60,
                            message |-> "Locating I3S layer entry point..."])
            /\ frame' = [frame EXCEPT !.pc = "slpk_detect"]
       ELSE LET out == slpk_raw(fs, now, frame.file_path, frame.output_dir,
                                frame.original_filename)
            IN  /\ fs' = out.fs
                /\ jobs' = jobs
                /\ frame' = [frame EXCEPT !.pc = "finish", !.ret = out.ret,
                                          !.exc = out.exc]
    /\ UNCHANGED <<now, tasks, req, lastPoll, CESIUM_ION_ACCESS_TOKEN, dispatched, i3sLog>>

\* str(p.relative_to(extract_dir))
RECURSIVE str_path(_)
str_path(p) ==
    IF Len(p) = 1 THEN p[1] ELSE p[1] \o "/" \o str_path(Tail(p))

\* The names and relative paths that occur in the packages of the model, in
\* the order sorted() gives to their strings (by code point: digits, capitals,
\* small letters; "." before "/").
SortedStrings ==
    << "3dSceneLayer.json", "SceneServer", "SceneServer/3dSceneLayer.json",
       "SceneServer/layers", "SceneServer/layers/0",
       "SceneServer/layers/0/3dSceneLayer.json",
       "SceneServer/layers/0/layer.json", "SceneServer/nodes",
       "SceneServer/nodes/5", "SceneServer/nodes/5/index.json",
       "SceneServer/service.json", "layers", "layers/0",
       "layers/0/3dSceneLayer.json", "layers/0/layer.json",
       "layers/0/layer.json.gz", "layers/0/nodes", "layers/0/nodes/5",
       "layers/x", "layers/x/nodes", "layers/x/nodes/5", "metadata.json",
       "nodes", "nodes/5", "nodes/5.json", "nodes/5.json.gz",
       "nodes/5/3dNodeIndexDocument.json", "nodes/5/3dSceneLayer.json",
       "nodes/5/geometry.bin", "nodes/5/index.json", "nodes/5/index.json.gz",
       "nodes/5/layer.json", "nodes/root", "nodes/root/geometry.bin",
       "service.json", "service.json.gz" >>

\* sorted(S) for a set S of such strings
sorted(S) == SelectSeq(SortedStrings, LAMBDA s : s \in S)

\* sep.join(seq)
RECURSIVE join(_, _)
join(sep, seq) ==
    IF seq = << >> THEN ""
    ELSE IF Len(seq) = 1 THEN seq[1]
    ELSE seq[1] \o sep \o join(sep, Tail(seq))

\* seq[:n]
Take(seq, n) == SubSeq(seq, 1, Min(n, Len(seq)))

\* what the deep scan of handle_slpk lists as the JSON files of the tree T
json_files(T) ==
    sorted({ str_path(p) : p \in { q \in TreePaths(T) : Suffix(q[Len(q)]) = ".json" } })

\* error_message that gives the text only, without what the scan counted
error_message_text_only(T) == "SLPK extracted but no I3S entry point found."

\* error_message of the "no I3S entry point found" branch: " ".join(error_parts)
\* over what the deep scan gathered from the extracted tree T
error_message(T) ==
    LET all_dirs == sorted({ str_path(p) : p \in TreeDirs(T) })
        all_files == sorted({ str_path(p) : p \in T })
        service_json_files == Named(T, "service.json")
        layers_folders == { p \in TreeDirs(T) : p[Len(p)] = "layers" }
        scene_layer_files == Named(T, "3dSceneLayer.json")
        layer_json_files == Named(T, "layer.json")
        \* sorted([p.name for p in extract_dir.iterdir()])
        top_level == sorted({ p[1] : p \in T })
    IN  join(" ",
             << "SLPK extracted but no I3S entry point found.",
                "Statistics: " \o ToString(Len(all_dirs)) \o " dirs, "
                    \o ToString(Len(all_files)) \o " files, "
                    \o ToString(Len(json_files(T))) \o " JSONs.",
                "Top-level: " \o join(", ", top_level) \o "." >>
             \o (IF json_files(T) # << >>
                 THEN << "JSON files: " \o join(", ", Take(json_files(T), 30)) \o "." >>
                 ELSE << >>)
             \o (IF layers_folders = {}
                 THEN << "No 'layers/' folders found (expected for valid I3S)." >>
                 ELSE << >>)
             \o (IF service_json_files = {} /\ scene_layer_files = {}
                    /\ layer_json_files = {}
                 THEN << "No I3S metadata files found (service.json, 3dSceneLayer.json, layer.json)." >>
                 ELSE << >>))

\* the package is removed, the entry point looked for, and the result returned
slpk_detect ==
    /\ frame.pc = "slpk_detect"
    /\ LET extract_dir == frame.output_dir
           T == fs[extract_dir].tree
           i3s_url == Url("i3s", extract_dir, "")
       IN  /\ fs' = FsDiscard(fs, frame.file_path)
           /\ IF I3sDetected(T)
              THEN /\ jobs' = update_job(jobs, frame.job,
                                  [progress |-> 90, message |-> "I3S layer ready"])
                   /\ frame' = [frame EXCEPT !.pc = "finish",
                          !.ret = ProcessingResult(i3s_url, Cardinality(T), "i3s",
                                      "SLPK extracted as I3S (load with Cesium.I3SDataProvider)")]
              ELSE /\ jobs' = update_job(jobs, frame.job,
                                  [progress |-> 50,
                                   message |-> "No I3S entrypoint found"])
                   /\ frame' = [frame EXCEPT !.pc = "finish",
                          !.ret = ProcessingResult(i3s_url, Cardinality(T),
                                      "slpk_extracted_unrecognized",
                                      error_message(T))]
    /\ UNCHANGED <<now, tasks, req, lastPoll, CESIUM_ION_ACCESS_TOKEN, dispatched, i3sLog>>

\* -------------------------------------------------------------- archives
\* the suffixes handle_archive globs for, in its order
MainExts == << ".gltf", ".glb", ".obj", ".fbx", ".dae", ".json", ".cmpt", ".b3dm" >>

\* extract_dir.glob("**/*<ext>"): the paths of the tree whose name ends so
Glob(T, ext) == { p \in TreePaths(T) : Suffix(p[Len(p)]) = ext }

\* what main_files[0] can be: a match of the first suffix that has matches
\* (the order within one glob is the directory order, which is not fixed)
MainFiles(T) ==
    IF \A i \in DOMAIN MainExts : Glob(T, MainExts[i]) = {}
    THEN {}
    ELSE LET first == CHOOSE i \in DOMAIN MainExts :
                          /\ Glob(T, MainExts[i]) # {}
                          /\ \A k \in 1..(i - 1) : Glob(T, MainExts[k]) = {}
         IN  Glob(T, MainExts[first])

\* the bytes extracted from the archive that request r sent
Extracted(r) == 0 - r

\* handle_archive up to the end of the extraction: the directory is made, a
\* .zip is extracted into it; what ZipFile raises is kept for the except branch
handle_archive ==
    /\ frame.pc = "handle_archive"
    /\ LET extract_dir == UploadsPath("extracted", now,
                                      frame.original_filename.stem, "")
           fs1 == FsMkdir(fs, extract_dir)
       IN  /\ IF Lower(frame.file_path.ext) = ".zip"
              THEN IF IsZip(fs1, frame.file_path)
                   THEN /\ fs' = [fs1 EXCEPT ![extract_dir] =
                                     extractall(@, req[fs[frame.file_path].data].content)]
                        /\ frame' = [frame EXCEPT !.pc = "archive_finish",
                                                  !.output_dir = extract_dir]
                   ELSE /\ fs' = fs1
                        /\ frame' = [frame EXCEPT !.pc = "archive_finish",
                                        !.output_dir = extract_dir,
                                        !.exc = IF frame.file_path \in DOMAIN fs
                                                THEN BadZipFile
                                                ELSE FileNotFoundError]
              ELSE /\ fs' = fs1
                   /\ frame' = [frame EXCEPT !.pc = "archive_finish",
                                             !.output_dir = extract_dir]
    /\ UNCHANGED <<now, jobs, tasks, req, lastPoll, CESIUM_ION_ACCESS_TOKEN, dispatched, i3sLog>>

\* the rest of handle_archive for one choice of main_files[0] (<< >> when
\* there is none): the main file is moved out and the rest removed, or the
\* archive is moved as it is; the except branch moves the archive as well.
archive_result(f, t, file_path, extract_dir, name, caught, main_file) ==
    LET raw_path == UploadsPath("archive", t, name.stem, name.ext)
    IN  IF caught # NoExc
        THEN MoveUpload(f, file_path, raw_path, "archive_error",
                        "Archive file (extraction failed)")
        ELSE IF main_file # << >>
        THEN LET main_name == main_file[Len(main_file)]
                 new_path == UploadsPath("archive", t, Stem(main_name),
                                         Suffix(main_name))
                 data == IF file_path \in DOMAIN f
                         THEN Extracted(f[file_path].data) ELSE 0
                 f1 == FsRemove(FsPut(f, new_path, FileEntry(0, data, 1)),
                                extract_dir)
             IN  IF file_path \in DOMAIN f1
                 THEN [fs |-> FsRemove(f1, file_path),
                       ret |-> ProcessingResult(Url("uploads", new_path, ""), 1,
                                   "archive_extracted",
                                   "Extracted " \o main_name \o " from archive"),
                       exc |-> NoExc]
                 ELSE [fs |-> f1, ret |-> NoReturn, exc |-> FileNotFoundError]
        ELSE MoveUpload(f, file_path, raw_path, "archive_raw",
                        "Archive file (no supported formats found inside)")

archive_finish ==
    /\ frame.pc = "archive_finish"
    /\ LET T == fs[frame.output_dir].tree
       IN  \E main_file \in (IF MainFiles(T) = {} \/ frame.exc # NoExc
                              THEN { << >> } ELSE MainFiles(T)) :
             LET out == archive_result(fs, now, frame.file_path, frame.output_dir,
                                       frame.original_filename, frame.exc, main_file)
             IN  /\ fs' = out.fs
                 /\ frame' = [frame EXCEPT !.pc = "finish", !.ret = out.ret,
                                           !.exc = out.exc]
    /\ UNCHANGED <<now, jobs, tasks, req, lastPoll, CESIUM_ION_ACCESS_TOKEN, dispatched, i3sLog>>

\* ---------------------------------------------------- the Cesium ion fallback
\* f"ion://{asset_id}" with the asset id upload_to_cesium_ion returns
IonUrl == Url("ion", NoPath, "placeholder_asset_id")

\* handle_cesium_ion_conversion: without a token the upload is moved to
\* uploads/unknown_<ts>_<name>; with one it stays where it is and the ion URL
\* is returned, and a missing file makes stat() and then the move raise.
handle_cesium_ion_conversion ==
    /\ frame.pc = "handle_cesium_ion_conversion"
    /\ LET name == frame.original_filename
           out == IF ~CESIUM_ION_ACCESS_TOKEN
                  THEN MoveUpload(fs, frame.file_path,
                                  UploadsPath("unknown", now, name.stem, name.ext),
                                  "unknown_raw",
                                  "Unknown format (Cesium ion not configured)")
                  ELSE IF frame.file_path \in DOMAIN fs
                  THEN [fs |-> fs,
                        ret |-> ProcessingResult(IonUrl, fs[frame.file_path].size,
                                    "cesium_ion",
                                    "File uploaded to Cesium ion for processing"),
                        exc |-> NoExc]
                  ELSE [fs |-> fs, ret |-> NoReturn, exc |-> FileNotFoundError]
       IN  /\ fs' = out.fs
           /\ frame' = [frame EXCEPT !.pc = "finish", !.ret = out.ret, !.exc = out.exc]
    /\ UNCHANGED <<now, jobs, tasks, req, lastPoll, CESIUM_ION_ACCESS_TOKEN, dispatched, i3sLog>>

\* ------------------------------------------- the end of the background task
JobResult(success, file_ext, ret) ==
    [isNone |-> FALSE, success |-> success, url |-> ret.url, size |-> ret.size,
     original_format |-> file_ext, processing_type |-> ret.processing_type,
     message |-> ret.message]

\* error_update without the status: a failed job stays Processing
error_update_keeps_status(exc) ==
    [progress |-> 0, error |-> str(exc),
     message |-> "Processing failed: " \o str(exc)]

\* the update_job of the except branch of process_model_background
error_update(exc) ==
    [status |-> JobStatus.ERROR, progress |-> 0, error |-> str(exc),
     message |-> "Processing failed: " \o str(exc)]

\* final_update that marks a job complete without setting its progress: the
\* value the handler left stays
final_update_keeps_progress(file_ext, ret, exc) ==
    IF exc # NoExc
    THEN error_update(exc)
    ELSE IF ret.processing_type = "slpk_extracted_unrecognized"
    THEN [status |-> JobStatus.ERROR, stage |-> JobStage.DONE, progress |-> 100,
          error |-> ret.message,
          message |-> "SLPK extracted but no I3S entrypoint found",
          result |-> JobResult(FALSE, file_ext, ret)]
    ELSE [status |-> JobStatus.DONE, stage |-> JobStage.DONE,
          message |-> "Processing complete",
          result |-> JobResult(TRUE, file_ext, ret)]

\* The last update_job of process_model_background: the except branch, the
\* unrecognized-SLPK branch, or "Mark job as complete".
final_update(file_ext, ret, exc) ==
    IF exc # NoExc
    THEN error_update(exc)
    ELSE IF ret.processing_type = "slpk_extracted_unrecognized"
    THEN [status |-> JobStatus.ERROR, stage |-> JobStage.DONE, progress |-> 100,
          error |-> ret.message,
          message |-> "SLPK extracted but no I3S entrypoint found",
          result |-> JobResult(FALSE, file_ext, ret)]
    ELSE [status |-> JobStatus.DONE, stage |-> JobStage.DONE, progress |-> 100,
          message |-> "Processing complete",
          result |-> JobResult(TRUE, file_ext, ret)]

\* the handler has returned or raised: the final update, and in the except
\* branch "Clean up on error"; the task ends and frees the loop
process_model_background_end ==
    /\ frame.pc = "finish"
    /\ jobs' = update_job(jobs, frame.job,
                          final_update(frame.file_ext, frame.ret, frame.exc))
    /\ fs' = IF frame.exc # NoExc THEN FsDiscard(fs, frame.file_path) ELSE fs
    /\ tasks' = [tasks EXCEPT ![frame.job].state = "finished"]
    /\ frame' = IdleFrame
    /\ UNCHANGED <<now, req, lastPoll, CESIUM_ION_ACCESS_TOKEN, dispatched, i3sLog>>

\* GET /api/jobs/{job_id}, for the id of a job or an id no job has
poll(job_id) ==
    /\ LoopFree
    /\ lastPoll' = get_job_status(jobs, job_id)
    /\ lastPoll' # lastPoll
    /\ UNCHANGED <<now, fs, jobs, tasks, req, frame, CESIUM_ION_ACCESS_TOKEN, dispatched, i3sLog>>

Next ==
    \/ Tick
    \/ \E r \in Requests : upload_model(r)
    \/ \E r \in Requests : upload_model_chunk(r)
    \/ \E r \in Requests : upload_model_accept(r)
    \/ \E j \in JobIds \cup {UnknownJobId} : poll(j)
    \/ \E j \in JobIds : process_model_background(j)
    \/ process_3d_model
    \/ handle_flat
    \/ handle_point_cloud
    \/ convert_point_cloud_to_3dtiles
    \/ py3dtiles_run
    \/ tileset_check
    \/ handle_traditional_3d
    \/ traditional_finish
    \/ handle_slpk
    \/ slpk_extract
    \/ slpk_detect
    \/ handle_archive
    \/ archive_finish
    \/ handle_cesium_ion_conversion
    \/ process_model_background_end

Spec == Init /\ [][Next]_vars

\* The steps of the background tasks.  asyncio runs every task that
\* create_task has scheduled, and each subprocess.run is bounded by its
\* timeout, so a task that can step does step.
TaskNext ==
    \/ \E j \in JobIds : process_model_background(j)
    \/ process_3d_model
    \/ handle_flat
    \/ handle_point_cloud
    \/ convert_point_cloud_to_3dtiles
    \/ py3dtiles_run
    \/ tileset_check
    \/ handle_traditional_3d
    \/ traditional_finish
    \/ handle_slpk
    \/ slpk_extract
    \/ slpk_detect
    \/ handle_archive
    \/ archive_finish
    \/ handle_cesium_ion_conversion
    \/ process_model_background_end

FairSpec == Spec /\ WF_vars(TaskNext)

\* ------------------------------------------------------- the I3S shim
\* A request path is the sequence of its segments; a leading or trailing
\* slash leaves an empty segment ("layers/0/" is <<"layers", "0", "">>).
RECURSIVE lstrip(_)
lstrip(p) == IF p # << >> /\ Head(p) = "" THEN lstrip(Tail(p)) ELSE p
RECURSIVE rstrip(_)
rstrip(p) ==
    IF p # << >> /\ p[Len(p)] = "" THEN rstrip(SubSeq(p, 1, Len(p) - 1)) ELSE p

\* str.isdigit() on the segments that occur in the model's requests
isdigit(seg) == seg \in {"0", "1", "5"}

\* f"{path}.json", attempted + ".gz": the text is appended to the last segment
WithName(p, text) == [p EXCEPT ![Len(p)] = @ \o text]
SceneServer(p) == <<"SceneServer">> \o p

\* A candidate is a path relative to the extraction directory, or, with "/"
\* as its first segment, an absolute path.
IsAbsolute(p) == p # << >> /\ p[1] = "/"
\* pathlib drops the empty segments of "a//b"
Collapse(p) == SelectSeq(p, LAMBDA s : s # "")
\* base / operand: an operand that starts with "/" replaces the base
PathJoin(base, operand) ==
    IF operand # << >> /\ operand[1] = ""
    THEN <<"/">> \o Collapse(operand)
    ELSE base \o Collapse(operand)

\* The extraction directory uploads/<folder> of a server started in a
\* directory right under "/" is RootDepth levels below "/".
RootDepth == 3
Root == [i \in 1..RootDepth |-> ".."]
\* folder names under uploads/: f"{prefix}_{int(time.time())}_{stem}{ext}"
EntryName(p) == p.prefix \o "_" \o ToString(p.ts) \o "_" \o p.stem \o p.ext
\* files of the host outside uploads/, as seen from an extraction directory
Outside == { <<"..", "..", "main.py">>, Root \o <<"etc", "passwd">> }

\* What the file system holds as seen from uploads/<slpk_folder>: the tree of
\* the folder, the other entries of uploads/ behind "..", and the rest of the
\* host behind "../..".
View(f, slpk_folder) ==
    [f[slpk_folder] EXCEPT
        !.tree = @ \cup Outside
                 \cup { <<"..", EntryName(g)>> :
                          g \in { h \in DOMAIN f \ {slpk_folder} : f[h].kind = "file" } }
                 \cup UNION { { <<"..", EntryName(g)>> \o m : m \in f[g].tree } :
                              g \in { h \in DOMAIN f \ {slpk_folder} : f[h].kind = "dir" } }]

\* How the operating system resolves a candidate on the tree T: "" and "."
\* stay, ".." goes to the parent (of "/" it is "/"), and a step can only be
\* taken from a directory.  The result is a path of T with all its ".." in
\* front, or NoSuchPath.
NoSuchPath == <<"?">>
IsDirAt(T, at) ==
    at = << >> \/ \E m \in T : Len(at) < Len(m) /\ SubSeq(m, 1, Len(at)) = at
RECURSIVE Walk(_, _, _)
Walk(T, at, segs) ==
    LET Up == IF at # << >> /\ at[Len(at)] # ".."
              THEN SubSeq(at, 1, Len(at) - 1)
              ELSE IF Len(at) < RootDepth THEN Append(at, "..") ELSE at
    IN  IF segs = << >> THEN at
        ELSE IF Head(segs) \in {"", "."} THEN Walk(T, at, Tail(segs))
        ELSE IF ~IsDirAt(T, at) THEN NoSuchPath
        ELSE IF Head(segs) = ".." THEN Walk(T, Up, Tail(segs))
        ELSE Walk(T, Append(at, Head(segs)), Tail(segs))
Canon(T, c) == IF IsAbsolute(c) THEN Walk(T, Root, Tail(c)) ELSE Walk(T, << >>, c)

\* Path.is_file(), Path.is_dir(), Path.exists(); a relative path of plain
\* names is resolved without leaving the tree
PlainPath(c) == \A k \in DOMAIN c : c[k] \notin {"", ".", "..", "/"}
is_file(T, c) == IF PlainPath(c) THEN c \in T ELSE Canon(T, c) \in T
is_dir(T, c) == IF PlainPath(c) THEN IsDirAt(T, c) ELSE IsDirAt(T, Canon(T, c))
exists(T, c) == is_file(T, c) \/ is_dir(T, c)

\* root_candidates with the root-level 3dSceneLayer.json tried first
root_candidates_layer_first ==
    << <<"3dSceneLayer.json">>,
       <<"service.json">>,
       <<"SceneServer", "service.json">>,
       <<"SceneServer", "3dSceneLayer.json">> >>

root_candidates ==
    << <<"service.json">>,
       <<"SceneServer", "service.json">>,
       <<"SceneServer", "3dSceneLayer.json">>,
       <<"3dSceneLayer.json">> >>

\* layer_candidates with the SceneServer/ copies tried first
layer_candidates_scene_server_first(layer_path) ==
    << SceneServer(layer_path) \o <<"layer.json">>,
       SceneServer(layer_path) \o <<"3dSceneLayer.json">>,
       layer_path \o <<"layer.json">>,
       layer_path \o <<"3dSceneLayer.json">> >>

layer_candidates(layer_path) ==
    << layer_path \o <<"layer.json">>,
       layer_path \o <<"3dSceneLayer.json">>,
       SceneServer(layer_path) \o <<"layer.json">>,
       SceneServer(layer_path) \o <<"3dSceneLayer.json">> >>

\* alt_path that strips "layers/" and keeps the layer id
alt_path_keeps_layer_id(path) ==
    IF Len(path) >= 2 /\ path[1] = "layers" /\ Len(path) >= 3 /\ isdigit(path[2])
    THEN SubSeq(path, 2, Len(path))
    ELSE << >>

\* alt_path, << >> for None: the path without its layers/<layerId>/ prefix
alt_path(path) ==
    IF Len(path) >= 2 /\ path[1] = "layers" /\ Len(path) >= 3 /\ isdigit(path[2])
    THEN SubSeq(path, 3, Len(path))
    ELSE << >>

direct_candidates(path) ==
    LET alt == alt_path(path)
        IfAlt(cs) == IF alt # << >> THEN cs ELSE << >>
        extract_dir == << >>
        Direct(p) == PathJoin(extract_dir, p)
        InSceneServer(p) == PathJoin(SceneServer(extract_dir), p)
    IN  << Direct(path), InSceneServer(path) >>
        \o IfAlt(<< Direct(alt), InSceneServer(alt) >>)
        \o << Direct(WithName(path, ".json")),
              InSceneServer(WithName(path, ".json")) >>
        \o IfAlt(<< Direct(WithName(alt, ".json")),
                    InSceneServer(WithName(alt, ".json")) >>)
        \o << Direct(path) \o <<"index.json">>,
              InSceneServer(path) \o <<"index.json">>,
              Direct(path) \o <<"3dNodeIndexDocument.json">>,
              InSceneServer(path) \o <<"3dNodeIndexDocument.json">> >>
        \o IfAlt(<< Direct(alt) \o <<"index.json">>,
                    InSceneServer(alt) \o <<"index.json">>,
                    Direct(alt) \o <<"3dNodeIndexDocument.json">>,
                    InSceneServer(alt) \o <<"3dNodeIndexDocument.json">> >>)

\* what a resolution loop leaves: resolved_file (found, file) and
\* attempted_paths, the paths relative to the extraction directory
Probe(found, file, attempted) ==
    [found |-> found, file |-> file, attempted |-> attempted]

FirstOf(S) == CHOOSE i \in S : \A k \in S : i <= k

\* the loop of the root and the layer branch: candidate.exists()
exists_probe(T, candidates) ==
    LET hits == { i \in DOMAIN candidates : exists(T, candidates[i]) }
    IN  IF hits = {}
        THEN Probe(FALSE, << >>, candidates)
        ELSE Probe(TRUE, candidates[FirstOf(hits)],
                   SubSeq(candidates, 1, FirstOf(hits)))

\* direct_probe that does not record the entry documents it looks for
RECURSIVE direct_probe_omits_entries(_, _, _, _)
direct_probe_omits_entries(T, candidates, i, attempted) ==
    IF i > Len(candidates)
    THEN Probe(FALSE, << >>, attempted)
    ELSE LET candidate == candidates[i]
             a1 == Append(attempted, candidate)
             index == Append(candidate, "index.json")
             doc == Append(candidate, "3dNodeIndexDocument.json")
         IN  IF is_file(T, candidate)
             THEN Probe(TRUE, candidate, a1)
             ELSE IF is_dir(T, candidate) /\ is_file(T, index)
             THEN Probe(TRUE, index, a1)
             ELSE IF is_dir(T, candidate) /\ is_file(T, doc)
             THEN Probe(TRUE, doc, a1)
             ELSE direct_probe_omits_entries(T, candidates, i + 1, a1)

\* the loop of the direct branch from candidate i on: a candidate that is a
\* file resolves, one that is a directory is looked into for its entry docs
RECURSIVE direct_probe(_, _, _, _)
direct_probe(T, candidates, i, attempted) ==
    IF i > Len(candidates)
    THEN Probe(FALSE, << >>, attempted)
    ELSE LET candidate == candidates[i]
             a1 == Append(attempted, candidate)
             index == Append(candidate, "index.json")
             doc == Append(candidate, "3dNodeIndexDocument.json")
         IN  IF is_file(T, candidate)
             THEN Probe(TRUE, candidate, a1)
             ELSE IF is_dir(T, candidate)
             THEN IF is_file(T, index)
                  THEN Probe(TRUE, index, Append(a1, index))
                  ELSE IF is_file(T, doc)
                  THEN Probe(TRUE, doc, a1 \o << index, doc >>)
                  ELSE direct_probe(T, candidates, i + 1, a1 \o << index, doc >>)
             ELSE direct_probe(T, candidates, i + 1, a1)

\* gz_fallback that looks for the .gz of the first attempted path only
gz_fallback_first_path_only(T, probe) ==
    IF probe.found
       \/ probe.attempted = << >>
       \/ ~exists(T, WithName(probe.attempted[1], ".gz"))
    THEN probe
    ELSE Probe(TRUE, WithName(probe.attempted[1], ".gz"), probe.attempted)

\* "Handle gzipped files": the first attempted path that exists with ".gz"
\* appended
gz_fallback(T, probe) ==
    LET hits == { i \in DOMAIN probe.attempted :
                    exists(T, WithName(probe.attempted[i], ".gz")) }
    IN  IF probe.found \/ hits = {}
        THEN probe
        ELSE Probe(TRUE, WithName(probe.attempted[FirstOf(hits)], ".gz"),
                   probe.attempted)

\* resolved_file and attempted_paths for a normalised path on the tree T
resolve(T, path) ==
    gz_fallback(T,
        IF path = << >>
        THEN exists_probe(T, root_candidates)
        ELSE IF Len(path) = 2 /\ path[1] = "layers"
        THEN exists_probe(T, layer_candidates(path))
        ELSE direct_probe(T, direct_candidates(path), 1, << >>))

\* mimetypes.guess_type(name)[0], "" for None; ".gz" is an encoding, and the
\* type is that of the name without it
RECURSIVE guess_type(_)
guess_type(name) ==
    CASE Suffix(name) = ".json" -> "application/json"
      [] Suffix(name) = ".bin" -> "application/octet-stream"
      [] Suffix(name) = ".py" -> "text/x-python"
      [] Suffix(name) = ".gz" -> guess_type(Stem(name))
      [] OTHER -> ""

\* What the endpoint answers: the status, for a file its media type and
\* content, for an HTTPException its detail, for the JSON 404 its body.
NoBody == [error |-> "", requested |-> [slpk_folder |-> NoPath, path |-> << >>],
           attempted_paths |-> << >>]
I3sResponse(status_code, media_type, content, detail, body) ==
    [status_code |-> status_code, media_type |-> media_type,
     content |-> content, detail |-> detail, body |-> body]

\* "Serve the file": a .gz file is decompressed in memory, any other is sent
\* as it is; what gzip.open raises becomes a 500
serve_file(e, resolved_file) ==
    LET name == resolved_file[Len(resolved_file)]
        held == ContentOf(e, Canon(e.tree, resolved_file))
    IN  IF Suffix(name) = ".gz"
        THEN IF is_file(e.tree, resolved_file) /\ GunzipOk(held)
             THEN LET original_name == Stem(name)
                      content_type ==
                          IF guess_type(original_name) # ""
                          THEN guess_type(original_name)
                          ELSE IF Suffix(original_name) = ".json"
                          THEN "application/json"
                          ELSE "application/octet-stream"
                  IN  I3sResponse(200, content_type, Gunzip(held), "", NoBody)
             ELSE I3sResponse(500, "", Data(<< >>),
                              "Error serving file: Not a gzipped file", NoBody)
        ELSE IF ~is_file(e.tree, resolved_file)
        THEN I3sResponse(500, "", Data(<< >>), "Internal Server Error", NoBody)
        ELSE LET content_type ==
                     IF guess_type(name) # ""
                     THEN guess_type(name)
                     ELSE IF Suffix(name) = ".json"
                     THEN "application/json"
                     ELSE "application/octet-stream"
             IN  I3sResponse(200, content_type, held, "", NoBody)

\* i3s_resolved with attempted_paths shared by all requests: the list keeps
\* what earlier requests appended
i3s_resolved_shared_attempts(f, slpk_folder, raw_path) ==
    IF slpk_folder \notin DOMAIN f \/ f[slpk_folder].kind # "dir"
    THEN Probe(FALSE, << >>, << >>)
    ELSE LET earlier == IF i3sLog = << >> THEN << >>
                        ELSE i3sLog[Len(i3sLog)].resolved.attempted
             probe == resolve(View(f, slpk_folder).tree, rstrip(lstrip(raw_path)))
         IN  Probe(probe.found, probe.file, earlier \o probe.attempted)

\* resolved_file and attempted_paths as the handler leaves them
i3s_resolved(f, slpk_folder, raw_path) ==
    IF slpk_folder \notin DOMAIN f \/ f[slpk_folder].kind # "dir"
    THEN Probe(FALSE, << >>, << >>)
    ELSE resolve(View(f, slpk_folder).tree, rstrip(lstrip(raw_path)))

\* relative_to_raises that never does: a path outside uploads/ is logged and
\* listed like any other
relative_to_never_raises(probe) == FALSE

\* Path.relative_to(UPLOADS_DIR) raises ValueError for an absolute path: in
\* the log line of a resolved file, and in the attempted_paths of the 404
\* body; nothing catches it
relative_to_raises(probe) ==
    IF probe.found
    THEN IsAbsolute(probe.file)
    ELSE \E i \in DOMAIN probe.attempted : IsAbsolute(probe.attempted[i])

\* GET /i3s/{slpk_folder}/{path} on the uploads directory f
i3s_response(f, slpk_folder, raw_path) ==
    LET path == rstrip(lstrip(raw_path))
    IN  IF slpk_folder \notin DOMAIN f \/ f[slpk_folder].kind # "dir"
        THEN I3sResponse(404, "", Data(<< >>), "SLPK folder not found", NoBody)
        ELSE LET probe == i3s_resolved(f, slpk_folder, raw_path)
             IN  IF relative_to_raises(probe)
                 THEN I3sResponse(500, "", Data(<< >>), "Internal Server Error",
                                  NoBody)
                 ELSE IF ~probe.found
                 THEN I3sResponse(404, "application/json", Data(<< >>), "",
                          [error |-> "File not found",
                           requested |-> [slpk_folder |-> slpk_folder,
                                          path |-> path],
                           attempted_paths |->
                               [i \in DOMAIN probe.attempted |->
                                   [slpk_folder |-> slpk_folder,
                                    path |-> probe.attempted[i]]]])
                 ELSE serve_file(View(f, slpk_folder), probe.file)

\* serve_i3s that keeps what it decompressed: the content of a .gz file it
\* served is written next to it, under the name without .gz
serve_i3s_keeps_decompressed(slpk_folder, path) ==
    /\ LoopFree
    /\ Len(i3sLog) < MaxServes
    /\ i3sLog' = Append(i3sLog,
                    [slpk_folder |-> slpk_folder, path |-> path, uploads |-> fs,
                     resolved |-> i3s_resolved(fs, slpk_folder, path),
                     response |-> i3s_response(fs, slpk_folder, path)])
    /\ LET probe == i3s_resolved(fs, slpk_folder, path)
       IN  fs' = IF /\ probe.found
                    /\ Suffix(probe.file[Len(probe.file)]) = ".gz"
                    /\ i3s_response(fs, slpk_folder, path).status_code = 200
                 THEN [fs EXCEPT ![slpk_folder] =
                          [@ EXCEPT !.tree = @ \cup { json_file(probe.file) },
                                    !.bytes = @ \cup { <<json_file(probe.file),
                                        i3s_response(fs, slpk_folder, path).content>> }]]
                 ELSE fs
    /\ UNCHANGED <<now, jobs, tasks, req, frame, lastPoll, CESIUM_ION_ACCESS_TOKEN, dispatched>>

\* the request is served: nothing but the history of served requests changes
serve_i3s(slpk_folder, path) ==
    /\ LoopFree
    /\ Len(i3sLog) < MaxServes
    /\ i3sLog' = Append(i3sLog,
                    [slpk_folder |-> slpk_folder, path |-> path, uploads |-> fs,
                     resolved |-> i3s_resolved(fs, slpk_folder, path),
                     response |-> i3s_response(fs, slpk_folder, path)])
    /\ UNCHANGED <<now, fs, jobs, tasks, req, frame, lastPoll, CESIUM_ION_ACCESS_TOKEN, dispatched>>

\* ------------------------------------------------- the I3S shim alone
\* The files a package may hold, each with what it holds: the documents the
\* resolver looks for, a node as a file or as a directory, and .json.gz
\* files that are gzip streams or are not.
I3sPlain ==
    { <<"service.json">>, <<"SceneServer", "service.json">>,
      <<"SceneServer", "3dSceneLayer.json">>, <<"3dSceneLayer.json">>,
      <<"layers", "0", "layer.json">>, <<"layers", "0", "3dSceneLayer.json">>,
      <<"SceneServer", "layers", "0", "layer.json">>,
      <<"SceneServer", "layers", "0", "3dSceneLayer.json">>,
      <<"nodes", "5">>, <<"nodes", "5.json">>,
      <<"nodes", "5", "index.json">>,
      <<"nodes", "5", "3dNodeIndexDocument.json">>,
      <<"nodes", "5", "geometry.bin">>,
      <<"SceneServer", "nodes", "5">>,
      <<"SceneServer", "nodes", "5", "index.json">>,
      <<"layers", "0", "nodes", "5">>,
      <<"layers", "x", "nodes", "5">> }
I3sGz ==
    { <<"service.json.gz">>, <<"layers", "0", "layer.json.gz">>,
      <<"nodes", "5.json.gz">>, <<"nodes", "5", "index.json.gz">> }
I3sMembers ==
    { <<m, Data(m)>> : m \in I3sPlain }
    \cup { <<m, Gzip(json_file(m))>> : m \in I3sGz }
    \cup { <<m, Data(<<"not gzip">>)>> : m \in I3sGz }

\* the sets of at most k files that a zip can hold: no path twice, no path
\* both a file and a directory
RECURSIVE Packed(_)
Packed(k) ==
    IF k = 0
    THEN { {} }
    ELSE Packed(k - 1)
         \cup { B \cup {x} : B \in Packed(k - 1), x \in I3sMembers }
I3sPackages ==
    LET IsPrefix(p, q) == Len(p) < Len(q) /\ SubSeq(q, 1, Len(p)) = p
        Consistent(B) ==
            \A b1, b2 \in B :
                /\ b1[1] = b2[1] => b1 = b2
                /\ ~IsPrefix(b1[1], b2[1])
    IN  { ZipWith(ZipContent(TRUE, {}), B) :
            B \in { P \in Packed(MaxMembers) : Consistent(P) } }

I3sPaths ==
    { << >>, <<"layers", "0">>, <<"layers", "0", "">>,
      <<"layers", "0", "nodes", "5">>, <<"layers", "x", "nodes", "5">>,
      <<"nodes", "5">>, <<"nodes", "5.json">>,
      <<"..", "..", "main.py">>,
      <<"layers", "0", "", "nodes", "5">>,
      <<"layers", "0", "", "etc", "passwd">> }
\* a folder name under which nothing was ever extracted
I3sMissing == UploadsPath("slpk", 0, "gone", "")

\* The server starts on an uploads directory that holds what an earlier run
\* left: the directory handle_slpk extracted a package into, or the one
\* handle_archive extracted a zip into and kept (it had no main file).
I3sInit ==
    /\ now = 0
    /\ \E zc \in I3sPackages :
         \/ fs = [p \in { UploadsPath("slpk", 0, "m", "") } |->
                    decompress_json_gz(extractall(DirEntry({}), zc))]
         \/ /\ MainFiles(zc.members) = {}
            /\ fs = [p \in { UploadsPath("extracted", 0, "m", "") } |->
                       extractall(DirEntry({}), zc)]
    /\ jobs = << >>
    /\ tasks = << >>
    /\ req = [r \in Requests |-> IdleReq]
    /\ frame = IdleFrame
    /\ lastPoll = NoPoll
    /\ CESIUM_ION_ACCESS_TOKEN = FALSE
    /\ dispatched = {}
    /\ i3sLog = << >>

I3sNext ==
    \/ \E slpk_folder \in DOMAIN fs, path \in I3sPaths : serve_i3s(slpk_folder, path)
    \/ serve_i3s(I3sMissing, << >>)

I3sSpec == I3sInit /\ [][I3sNext]_vars

\* ------------------------------------------------- the extraction alone
\* Packages that put the detection of handle_slpk to the test: a regular file
\* named SceneServer, a service.json next to a regular file named layers,
\* scene-layer metadata in a folder that is neither the root nor layers/0.
DetectionPackages ==
    { ZipWith(ZipContent(TRUE, {}), { <<m, Data(m)>> : m \in B }) :
        B \in { { <<"SceneServer">> },
                { <<"service.json">>, <<"layers">> },
                { <<"nodes", "5", "3dSceneLayer.json">> },
                { <<"nodes", "5", "layer.json">> } } }

\* One upload of "m.slpk" was accepted at time 0 and its task is pending; the
\* package is any of the zips of I3sPackages or DetectionPackages, or no zip
\* at all.
ExtractInit ==
    /\ now = 0
    /\ \E zc \in I3sPackages \cup DetectionPackages \cup { ZipContent(FALSE, {}) } :
         LET file == FileName("m", ".slpk")
             path == UploadsPath("original", 0, "m", ".slpk")
         IN  /\ fs = [p \in { path } |-> FileEntry(1, 1, 1)]
             /\ jobs = create_job(<< >>, 1, file)
             /\ tasks = [j \in {1} |->
                            [state |-> "pending", file_path |-> path,
                             file_ext |-> ".slpk", original_filename |-> file,
                             request |-> 1, tool |-> NoToolRun]]
             /\ req = [r \in Requests |->
                          IF r = 1
                          THEN [Respond(r, [IdleReq EXCEPT !.file = file, !.body = 1,
                                               !.file_ext = ".slpk",
                                               !.bytes_written = 1,
                                               !.original_path = path, !.fd = 1,
                                               !.content = zc],
                                        202, "Upload complete, processing started")
                                  EXCEPT !.job_id = 1, !.status = "processing"]
                          ELSE IdleReq]
    /\ frame = IdleFrame
    /\ lastPoll = NoPoll
    /\ CESIUM_ION_ACCESS_TOKEN = FALSE
    /\ dispatched = {}
    /\ i3sLog = << >>

ExtractNext ==
    \/ \E j \in JobIds : process_model_background(j)
    \/ process_3d_model
    \/ handle_slpk
    \/ slpk_extract
    \/ slpk_detect
    \/ process_model_background_end

ExtractSpec == ExtractInit /\ [][ExtractNext]_vars

\* The extraction, and requests for the service root of whatever is under
\* uploads/ at the time.
ReadyNext ==
    \/ ExtractNext
    \/ \E slpk_folder \in DOMAIN fs : serve_i3s(slpk_folder, << >>)

ReadySpec == ExtractInit /\ [][ReadyNext]_vars

\* ---------------------------------------------------- the dispatch alone
\* The dispatch over the whole allow-list: every request has uploaded a file
\* "m<r><ext>" at time 0, for any allowed suffix, and was answered 202; the
\* tasks are pending.
DispatchInit ==
    /\ now = 0
    /\ \E ext \in [Requests -> UNIVERSAL_3D_FORMATS] :
         LET file(r) == FileName("m" \o ToString(r), ext[r])
             path(r) == UploadsPath("original", 0, file(r).stem, file(r).ext)
         IN  /\ fs = [p \in { path(r) : r \in Requests } |->
                         LET r == CHOOSE q \in Requests : path(q) = p
                         IN  FileEntry(r, r, 1)]
             /\ jobs = [j \in JobIds |-> create_job(<< >>, j, file(j))[j]]
             /\ tasks = [j \in JobIds |->
                            [state |-> "pending", file_path |-> path(j),
                             file_ext |-> ext[j], original_filename |-> file(j),
                             request |-> j, tool |-> NoToolRun]]
             /\ req = [r \in Requests |->
                          [Respond(r, [IdleReq EXCEPT !.file = file(r), !.body = 1,
                                           !.file_ext = ext[r], !.bytes_written = 1,
                                           !.original_path = path(r), !.fd = r],
                                   202, "Upload complete, processing started")
                             EXCEPT !.job_id = r, !.status = "processing"]]
    /\ frame = IdleFrame
    /\ lastPoll = NoPoll
    /\ CESIUM_ION_ACCESS_TOKEN \in BOOLEAN
    /\ dispatched = {}
    /\ i3sLog = << >>

\* `result = await process_3d_model(...)` is over: whatever the handler did,
\* the task ends and frees the loop
dispatch_return ==
    /\ frame.pc \notin {"idle", "process_3d_model"}
    /\ tasks' = [tasks EXCEPT ![frame.job].state = "finished"]
    /\ frame' = IdleFrame
    /\ UNCHANGED <<now, fs, jobs, req, lastPoll, CESIUM_ION_ACCESS_TOKEN, dispatched, i3sLog>>

DispatchNext ==
    \/ \E j \in JobIds : process_model_background(j)
    \/ process_3d_model
    \/ dispatch_return

DispatchSpec == DispatchInit /\ [][DispatchNext]_vars

\* ================================================================ claims
Terminal == {JobStatus.DONE, JobStatus.ERROR}
PointCloudFormats == {".las", ".laz", ".ply"}
MeshFormats == {".obj", ".fbx", ".dae", ".3ds", ".stl"}

\* a converter ran for the task and failed: the binary was missing or the run
\* timed out (it raised), it exited non-zero, or its output was not there
ToolFailed(run) ==
    /\ run.ran
    /\ (run.outcome.raises # "" \/ run.outcome.returncode # 0 \/ ~run.output)

\* C1: the status of a job only ever moves Queued -> Processing -> Done or
\* Error: a new job starts Queued, no step skips Processing or goes back, and
\* Done and Error are never left.
C1_StatusMonotonic ==
    [][/\ \A j \in DOMAIN jobs :
            /\ j \in DOMAIN jobs'
            /\ \/ jobs'[j].status = jobs[j].status
               \/ << jobs[j].status, jobs'[j].status >> \in
                     { << JobStatus.QUEUED, JobStatus.PROCESSING >>,
                       << JobStatus.PROCESSING, JobStatus.DONE >>,
                       << JobStatus.PROCESSING, JobStatus.ERROR >> }
       /\ \A j \in (DOMAIN jobs') \ (DOMAIN jobs) :
            jobs'[j].status = JobStatus.QUEUED]_vars

C1_Witness ==
    \E j, k \in DOMAIN jobs :
        jobs[j].status = JobStatus.DONE /\ jobs[k].status = JobStatus.ERROR

\* C2: under fair scheduling of the background tasks every created job
\* eventually has status Done or Error, whatever its handler does.
C2_EventuallyTerminal ==
    \A j \in JobIds :
        (j \in DOMAIN jobs) ~> (j \in DOMAIN jobs /\ jobs[j].status \in Terminal)

C2_Witness ==
    /\ DOMAIN jobs = JobIds
    /\ \A j \in JobIds : tasks[j].state = "finished" /\ jobs[j].status \in Terminal
    /\ \E j \in JobIds : jobs[j].error = str(FileNotFoundError)

\* C3: a point-cloud job (.las, .laz, .ply) that is Done has the URL
\* /uploads/<pointcloud directory>/tileset.json as its result, never the URL
\* of an uploaded file.
C3_PointCloudDoneServesTileset ==
    \A j \in DOMAIN jobs :
        (Lower(jobs[j].filename.ext) \in PointCloudFormats
           /\ jobs[j].status = JobStatus.DONE)
        => /\ ~jobs[j].result.isNone
           /\ jobs[j].result.url.root = "uploads"
           /\ jobs[j].result.url.sub = "tileset.json"
           /\ jobs[j].result.url.name.prefix = "pointcloud"
           /\ jobs[j].result.url.name.stem = jobs[j].filename.stem
           /\ jobs[j].result.url.name.ext = ""

C3_Witness ==
    \E j \in DOMAIN jobs :
        /\ jobs[j].filename.ext = ".PLY"
        /\ jobs[j].status = JobStatus.DONE

\* C4: a point-cloud job whose converter failed is never Done and never gets
\* a result (no fallback to the raw file); once its task has finished it is
\* Error with a non-empty error text.
C4_PointCloudFailureIsError ==
    \A j \in DOMAIN jobs :
        (Lower(jobs[j].filename.ext) \in PointCloudFormats /\ ToolFailed(tasks[j].tool))
        => /\ jobs[j].status # JobStatus.DONE
           /\ jobs[j].result.isNone
           /\ tasks[j].state = "finished"
                => /\ jobs[j].status = JobStatus.ERROR
                   /\ jobs[j].error \notin {None, ""}

C4_Witness ==
    \E j \in DOMAIN jobs :
        /\ Lower(jobs[j].filename.ext) \in PointCloudFormats
        /\ ToolFailed(tasks[j].tool)
        /\ tasks[j].tool.outcome.returncode # 0
        /\ tasks[j].state = "finished"

\* C5: a mesh job (.obj, .fbx, .dae, .3ds, .stl) whose Blender run failed ends
\* Done, not Error, with the original file moved unmodified to
\* uploads/traditional_<ts>_<name> and that file as its result.
C5_BlenderFailureFallsBack ==
    \A j \in DOMAIN jobs :
        (Lower(jobs[j].filename.ext) \in MeshFormats
           /\ ToolFailed(tasks[j].tool)
           /\ tasks[j].state = "finished")
        => /\ jobs[j].status = JobStatus.DONE
           /\ ~jobs[j].result.isNone
           /\ jobs[j].result.url.root = "uploads"
           /\ jobs[j].result.url.sub = ""
           /\ jobs[j].result.url.name.prefix = "traditional"
           /\ jobs[j].result.url.name.stem = jobs[j].filename.stem
           /\ jobs[j].result.url.name.ext = jobs[j].filename.ext

\* C6: the adapters report success only when the tool exited with code 0 and
\* the expected output exists; a missing binary, a non-zero exit, a missing
\* output and a timeout each give the failure value (None from
\* convert_to_gltf, success = false from convert_point_cloud_to_3dtiles).
C6_AdaptersReportFaithfully ==
    /\ frame.pc = "traditional_finish"
         => ((frame.gltf_path # NoPath) <=> ~ToolFailed(tasks[frame.job].tool))
    /\ (frame.pc = "finish" /\ frame.file_ext \in PointCloudFormats)
         => /\ ~frame.conversion_result.isNone
            /\ frame.conversion_result.success <=> ~ToolFailed(tasks[frame.job].tool)

C6_Witness ==
    /\ frame.pc = "traditional_finish"
    /\ frame.gltf_path = NoPath
    /\ tasks[frame.job].tool.outcome.raises = "TimeoutExpired"
    /\ tasks[frame.job].tool.output

\* C7: an upload whose lower-cased extension is outside the allow-list is
\* answered 400 in the step that receives it, and that step leaves the uploads
\* directory and the job store as they were; no job is ever made for it.
C7_UnsupportedRejectedFirst ==
    [][\A r \in Requests :
         (req[r].pc = "idle" /\ req'[r].pc # "idle"
            /\ Lower(req'[r].file.ext) \notin UNIVERSAL_3D_FORMATS)
         => /\ req'[r].pc = "responded"
            /\ req'[r].code = 400
            /\ req'[r].job_id = 0
            /\ fs' = fs
            /\ jobs' = jobs
            /\ tasks' = tasks]_vars

C7_Witness ==
    \E r \in Requests :
        /\ req[r].file = FileName("m", ".txt")
        /\ req[r].code = 400
        /\ fs # << >>
        /\ jobs # << >>

\* C8: an upload whose body exceeds MAX_FILE_SIZE is answered 400; after the
\* answer no file holding what it wrote is left under uploads/, and no job
\* was created for it.
C8_OversizeLeavesNothing ==
    \A r \in Requests :
        (req[r].body > MAX_FILE_SIZE /\ req[r].pc = "responded")
        => /\ req[r].code = 400
           /\ req[r].job_id = 0
           /\ \A j \in DOMAIN tasks : tasks[j].request # r
           /\ \A p \in DOMAIN fs : ~(fs[p].kind = "file" /\ fs[p].data = r)

C10_OnlyOwnTaskWrites ==
    [][\A j \in DOMAIN jobs :
         (j \in DOMAIN jobs' /\ jobs'[j] # jobs[j])
         => /\ frame'.job = j \/ frame.job = j
            /\ req' = req
            /\ lastPoll' \in {lastPoll, NoPoll}]_vars

C10_Witness ==
    \E j, k \in DOMAIN jobs :
        /\ jobs[j].status = JobStatus.PROCESSING
        /\ frame.job = j
        /\ jobs[k].status = JobStatus.DONE

Handlers ==
    { "handle_3d_tiles", "handle_gltf", "handle_point_cloud",
      "handle_gaussian_splats", "handle_traditional_3d", "handle_geospatial",
      "handle_slpk", "handle_archive", "handle_photogrammetry", "handle_bim",
      "handle_cesium_ion_conversion" }
Unbranched == {".blend", ".max", ".ma", ".mb"}

\* C11: every suffix of the allow-list that was dispatched went to exactly one
\* handler, the same one each time it was dispatched, whatever the file name
\* or the job; the allowed suffixes that no branch of process_3d_model lists
\* (.blend, .max, .ma, .mb) went to the Cesium ion fallback; and the handler
\* the task is in is the one recorded for its suffix.
C11_OneStrategyPerExtension ==
    /\ \A d \in dispatched : d[1] \in UNIVERSAL_3D_FORMATS => d[2] \in Handlers
    /\ \A d1, d2 \in dispatched : d1[1] = d2[1] => d1[2] = d2[2]
    /\ \A d \in dispatched :
          d[1] \in Unbranched => d[2] = "handle_cesium_ion_conversion"
    /\ \A j \in DOMAIN tasks :
          \/ tasks[j].state = "pending"
          \/ frame.job = j /\ frame.pc = "process_3d_model"
          \/ \E d \in dispatched : d[1] = tasks[j].file_ext
    /\ frame.pc \in Handlers =>
          dispatched \cap ({frame.file_ext} \X Handlers) = { <<frame.file_ext, frame.pc>> }

\* two jobs with a .blend file have both been dispatched, to the fallback
C11_Witness ==
    /\ <<".blend", "handle_cesium_ion_conversion">> \in dispatched
    /\ \E j1, j2 \in DOMAIN tasks :
          /\ j1 # j2
          /\ tasks[j1].file_ext = ".blend" /\ tasks[j1].state = "finished"
          /\ tasks[j2].file_ext = ".blend" /\ tasks[j2].state = "finished"

\* the requests served on a folder that is there, with the tree they saw
Served == { i \in DOMAIN i3sLog :
              /\ i3sLog[i].slpk_folder \in DOMAIN i3sLog[i].uploads
              /\ i3sLog[i].uploads[i3sLog[i].slpk_folder].kind = "dir" }
TreeSeen(i) == i3sLog[i].uploads[i3sLog[i].slpk_folder].tree
EntrySeen(i) == i3sLog[i].uploads[i3sLog[i].slpk_folder]
\* the first path of the sequence order that is a file of T, << >> if none is
FirstPresent(T, order) ==
    IF \A k \in DOMAIN order : order[k] \notin T
    THEN << >>
    ELSE order[CHOOSE k \in DOMAIN order :
                   /\ order[k] \in T
                   /\ \A n \in 1..(k - 1) : order[n] \notin T]

\* C12: a request with an empty path on a folder that is there is answered
\* with the first file that exists among service.json,
\* SceneServer/service.json, SceneServer/3dSceneLayer.json, 3dSceneLayer.json,
\* in this order.
C12_RootMetadataOrder ==
    \A i \in Served :
        LET first == FirstPresent(TreeSeen(i),
                         << <<"service.json">>,
                            <<"SceneServer", "service.json">>,
                            <<"SceneServer", "3dSceneLayer.json">>,
                            <<"3dSceneLayer.json">> >>)
        IN  i3sLog[i].path = << >> /\ first # << >> =>
               /\ i3sLog[i].resolved.found
               /\ i3sLog[i].resolved.file = first
               /\ i3sLog[i].response.status_code = 200
               /\ i3sLog[i].response.content = ContentOf(EntrySeen(i), first)

\* the root request on a tree with SceneServer/service.json and a root-level
\* 3dSceneLayer.json was answered with SceneServer/service.json
C12_Witness ==
    \E i \in Served :
        /\ i3sLog[i].path = << >>
        /\ TreeSeen(i) = { <<"SceneServer", "service.json">>, <<"3dSceneLayer.json">> }
        /\ i3sLog[i].resolved.file = <<"SceneServer", "service.json">>
        /\ i3sLog[i].response.status_code = 200

\* C13: a request for layers/0, with or without a trailing slash, on a folder
\* that is there is answered with the first file that exists among
\* layers/0/layer.json, layers/0/3dSceneLayer.json,
\* SceneServer/layers/0/layer.json, SceneServer/layers/0/3dSceneLayer.json,
\* in this order.
C13_LayerMetadataOrder ==
    \A i \in Served :
        LET first == FirstPresent(TreeSeen(i),
                         << <<"layers", "0", "layer.json">>,
                            <<"layers", "0", "3dSceneLayer.json">>,
                            <<"SceneServer", "layers", "0", "layer.json">>,
                            <<"SceneServer", "layers", "0", "3dSceneLayer.json">> >>)
        IN  /\ i3sLog[i].path \in { <<"layers", "0">>, <<"layers", "0", "">> }
            /\ first # << >>
            => /\ i3sLog[i].resolved.found
               /\ i3sLog[i].resolved.file = first
               /\ i3sLog[i].response.status_code = 200
               /\ i3sLog[i].response.content = ContentOf(EntrySeen(i), first)

\* on the tree of SceneServer/service.json and SceneServer/layers/0/layer.json
\* both layers/0 and layers/0/ were answered with the layer document
C13_Witness ==
    \E i, k \in Served :
        /\ i3sLog[i].path = <<"layers", "0">>
        /\ i3sLog[k].path = <<"layers", "0", "">>
        /\ TreeSeen(i) = { <<"SceneServer", "service.json">>,
                           <<"SceneServer", "layers", "0", "layer.json">> }
        /\ TreeSeen(k) = TreeSeen(i)
        /\ i3sLog[i].resolved.file = <<"SceneServer", "layers", "0", "layer.json">>
        /\ i3sLog[k].resolved.file = <<"SceneServer", "layers", "0", "layer.json">>
        /\ i3sLog[k].response.status_code = 200

\* the path d is a file of T, or a directory of T that holds one of the two
\* entry documents
Holds(T, d) ==
    \/ d \in T
    \/ /\ d \in TreeDirs(T)
       /\ \/ Append(d, "index.json") \in T
          \/ Append(d, "3dNodeIndexDocument.json") \in T

\* C14: a request for layers/0/nodes/5 that exists neither under the folder
\* nor under its SceneServer/ is answered 200 whenever nodes/5 is, at the
\* root of the tree or under SceneServer/, a file or a directory holding
\* index.json or 3dNodeIndexDocument.json, with that file or document; and
\* for layers/x/nodes/5, whose second segment is no number, no path without
\* the layers/x/ prefix is tried.
C14_AltPathStripsLayerPrefix ==
    \A i \in Served :
        LET T == TreeSeen(i)
            q == i3sLog[i]
        IN  /\ ( /\ q.path = <<"layers", "0", "nodes", "5">>
                 /\ <<"layers", "0", "nodes", "5">> \notin TreePaths(T)
                 /\ <<"SceneServer", "layers", "0", "nodes", "5">> \notin TreePaths(T)
                 /\ \/ Holds(T, <<"nodes", "5">>)
                    \/ Holds(T, <<"SceneServer", "nodes", "5">>) )
               => /\ q.resolved.found
                  /\ q.response.status_code = 200
                  /\ q.resolved.file \in
                        { <<"nodes", "5">>, <<"SceneServer", "nodes", "5">>,
                          <<"nodes", "5", "index.json">>,
                          <<"nodes", "5", "3dNodeIndexDocument.json">>,
                          <<"SceneServer", "nodes", "5", "index.json">>,
                          <<"SceneServer", "nodes", "5", "3dNodeIndexDocument.json">> }
                  /\ q.resolved.file \in T
                  /\ q.response.content = ContentOf(EntrySeen(i), q.resolved.file)
            /\ q.path = <<"layers", "x", "nodes", "5">>
               => \A k \in DOMAIN q.resolved.attempted :
                     LET a == q.resolved.attempted[k]
                     IN  \/ Len(a) >= 2 /\ SubSeq(a, 1, 2) = <<"layers", "x">>
                         \/ Len(a) >= 3 /\ SubSeq(a, 1, 3) = <<"SceneServer", "layers", "x">>

\* layers/0/nodes/5 was asked for on a tree that holds nothing but
\* nodes/5/3dNodeIndexDocument.json, and answered with that document
C14_Witness ==
    \E i \in Served :
        /\ i3sLog[i].path = <<"layers", "0", "nodes", "5">>
        /\ TreeSeen(i) = { <<"nodes", "5", "3dNodeIndexDocument.json">> }
        /\ i3sLog[i].resolved.file = <<"nodes", "5", "3dNodeIndexDocument.json">>
        /\ i3sLog[i].response.status_code = 200

\* the tree has nodes/5.json.gz and no nodes/5.json
OnlyGz(T) ==
    /\ <<"nodes", "5.json.gz">> \in T
    /\ <<"nodes", "5.json">> \notin TreePaths(T)
\* the request was answered 200 with what nodes/5.json.gz decompresses to,
\* as application/json
GzServed(i) ==
    /\ i3sLog[i].response.status_code = 200
    /\ i3sLog[i].response.media_type = "application/json"
    /\ ContentOf(EntrySeen(i), <<"nodes", "5.json.gz">>).enc = "gzip"
    /\ i3sLog[i].response.content =
          Data(ContentOf(EntrySeen(i), <<"nodes", "5.json.gz">>).data)

NoCandidate(T, path) ==
    /\ <<"SceneServer", "nodes", "5.json">> \notin TreePaths(T)
    /\ path = <<"nodes", "5">> =>
          /\ ~Holds(T, <<"nodes", "5">>)
          /\ ~Holds(T, <<"SceneServer", "nodes", "5">>)
\* the .gz files the resolver would take before nodes/5.json.gz, for the
\* request nodes/5
NoEarlierGz(T, path) ==
    path = <<"nodes", "5">> =>
        /\ <<"nodes", "5.gz">> \notin TreePaths(T)
        /\ <<"SceneServer", "nodes", "5.gz">> \notin TreePaths(T)
        /\ <<"nodes", "5", "index.json.gz">> \notin TreePaths(T)
        /\ <<"nodes", "5", "3dNodeIndexDocument.json.gz">> \notin TreePaths(T)
        /\ <<"SceneServer", "nodes", "5", "index.json.gz">> \notin TreePaths(T)
        /\ <<"SceneServer", "nodes", "5", "3dNodeIndexDocument.json.gz">> \notin TreePaths(T)

RECURSIVE WithEntries(_, _)
WithEntries(T, cands) ==
    IF cands = << >>
    THEN << >>
    ELSE (IF Head(cands) \in TreeDirs(T)
          THEN << Head(cands), Append(Head(cands), "index.json"),
                  Append(Head(cands), "3dNodeIndexDocument.json") >>
          ELSE << Head(cands) >>)
         \o WithEntries(T, Tail(cands))
Tried(T, path) ==
    CASE path = << >> ->
           << <<"service.json">>, <<"SceneServer", "service.json">>,
              <<"SceneServer", "3dSceneLayer.json">>, <<"3dSceneLayer.json">> >>
      [] path = <<"layers", "0">> ->
           << <<"layers", "0", "layer.json">>,
              <<"layers", "0", "3dSceneLayer.json">>,
              <<"SceneServer", "layers", "0", "layer.json">>,
              <<"SceneServer", "layers", "0", "3dSceneLayer.json">> >>
      [] path = <<"nodes", "5">> ->
           WithEntries(T,
              << <<"nodes", "5">>, <<"SceneServer", "nodes", "5">>,
                 <<"nodes", "5.json">>, <<"SceneServer", "nodes", "5.json">>,
                 <<"nodes", "5", "index.json">>,
                 <<"SceneServer", "nodes", "5", "index.json">>,
                 <<"nodes", "5", "3dNodeIndexDocument.json">>,
                 <<"SceneServer", "nodes", "5", "3dNodeIndexDocument.json">> >>)
      [] path = <<"layers", "0", "nodes", "5">> ->
           WithEntries(T,
              << <<"layers", "0", "nodes", "5">>,
                 <<"SceneServer", "layers", "0", "nodes", "5">>,
                 <<"nodes", "5">>, <<"SceneServer", "nodes", "5">>,
                 <<"layers", "0", "nodes", "5.json">>,
                 <<"SceneServer", "layers", "0", "nodes", "5.json">>,
                 <<"nodes", "5.json">>, <<"SceneServer", "nodes", "5.json">>,
                 <<"layers", "0", "nodes", "5", "index.json">>,
                 <<"SceneServer", "layers", "0", "nodes", "5", "index.json">>,
                 <<"layers", "0", "nodes", "5", "3dNodeIndexDocument.json">>,
                 <<"SceneServer", "layers", "0", "nodes", "5", "3dNodeIndexDocument.json">>,
                 <<"nodes", "5", "index.json">>,
                 <<"SceneServer", "nodes", "5", "index.json">>,
                 <<"nodes", "5", "3dNodeIndexDocument.json">>,
                 <<"SceneServer", "nodes", "5", "3dNodeIndexDocument.json">> >>)
      [] path = <<"layers", "0", "", "nodes", "5">> ->
           WithEntries(T,
              << <<"layers", "0", "nodes", "5">>,
                 <<"SceneServer", "layers", "0", "nodes", "5">>,
                 <<"/", "nodes", "5">>, <<"/", "nodes", "5">>,
                 <<"layers", "0", "nodes", "5.json">>,
                 <<"SceneServer", "layers", "0", "nodes", "5.json">>,
                 <<"/", "nodes", "5.json">>, <<"/", "nodes", "5.json">>,
                 <<"layers", "0", "nodes", "5", "index.json">>,
                 <<"SceneServer", "layers", "0", "nodes", "5", "index.json">>,
                 <<"layers", "0", "nodes", "5", "3dNodeIndexDocument.json">>,
                 <<"SceneServer", "layers", "0", "nodes", "5", "3dNodeIndexDocument.json">>,
                 <<"/", "nodes", "5", "index.json">>,
                 <<"/", "nodes", "5", "index.json">>,
                 <<"/", "nodes", "5", "3dNodeIndexDocument.json">>,
                 <<"/", "nodes", "5", "3dNodeIndexDocument.json">> >>)
      [] OTHER -> << >>
\* none of the tried paths is a file of the tree, and none exists with .gz
\* appended
NothingThere(T, tried) ==
    \A k \in DOMAIN tried :
        /\ tried[k] \notin T
        /\ [tried[k] EXCEPT ![Len(tried[k])] = @ \o ".gz"] \notin TreePaths(T)

\* C16: a request on a folder that is there, none of whose candidates exists,
\* plain or with .gz appended, is answered 404 with the body {error,
\* requested, attempted_paths}, where attempted_paths lists, relative to the
\* uploads directory and in the order they were tried, all the candidates
\* and the entry documents looked for in the directories among them; this
\* for the service root, layers/0, nodes/5, layers/0/nodes/5 and
\* layers/0//nodes/5, whose alternate path /nodes/5 is absolute.
C16_NotFoundListsAttempts ==
    \A i \in Served :
        LET q == i3sLog[i]
            path == IF q.path = <<"layers", "0", "">> THEN <<"layers", "0">>
                    ELSE q.path
            tried == Tried(TreeSeen(i), path)
        IN  tried # << >> /\ NothingThere(TreeSeen(i), tried) =>
               /\ q.response.status_code = 404
               /\ q.response.body.error = "File not found"
               /\ q.response.body.requested =
                     [slpk_folder |-> q.slpk_folder, path |-> path]
               /\ q.response.body.attempted_paths =
                     [k \in DOMAIN tried |->
                         [slpk_folder |-> q.slpk_folder, path |-> tried[k]]]

\* nodes/5 was asked for on a tree where it is a directory without an entry
\* document, and the 404 lists the ten paths tried
C16_Witness ==
    \E i \in Served :
        /\ i3sLog[i].path = <<"nodes", "5">>
        /\ TreeSeen(i) = { <<"nodes", "5", "geometry.bin">> }
        /\ i3sLog[i].response.status_code = 404
        /\ Len(i3sLog[i].response.body.attempted_paths) = 10
        /\ i3sLog[i].response.body.attempted_paths[2].path = <<"nodes", "5", "index.json">>

\* the two requests saw the same thing under their folder: nothing, or the
\* same entry with the same tree and contents
SameTreeSeen(i, k) ==
    LET Seen(n) == IF i3sLog[n].slpk_folder \in DOMAIN i3sLog[n].uploads
                   THEN { i3sLog[n].uploads[i3sLog[n].slpk_folder] }
                   ELSE {}
    IN  Seen(i) = Seen(k)

C18_ServingReadsOnly == [][i3sLog' # i3sLog => fs' = fs]_vars

\* nodes/5 was answered with the decompressed nodes/5.json.gz, and the tree
\* still holds the .gz file only
C18_Witness ==
    \E i \in Served :
        /\ i3sLog[i].path = <<"nodes", "5">>
        /\ i3sLog[i].resolved.file = <<"nodes", "5.json.gz">>
        /\ i3sLog[i].response.status_code = 200
        /\ fs[i3sLog[i].slpk_folder].tree = { <<"nodes", "5.json.gz">> }
        /\ fs = i3sLog[i].uploads

\* the package the running task extracts, and what its file m holds
Package == req[fs[frame.file_path].data].content
Packaged(m) == (CHOOSE b \in Package.bytes : b[1] = m)[2]
GzMember(m) ==
    m[Len(m)] \in {"service.json.gz", "layer.json.gz", "5.json.gz", "index.json.gz"}
\* m without the .gz at its end
Ungz(m) ==
    [m EXCEPT ![Len(m)] =
        CASE @ = "service.json.gz" -> "service.json"
          [] @ = "layer.json.gz" -> "layer.json"
          [] @ = "5.json.gz" -> "5.json"
          [] @ = "index.json.gz" -> "index.json"
          [] OTHER -> @]

\* C19: the extraction step of handle_slpk on a zip goes on to the detection
\* and leaves, for every *.json.gz member that is a gzip stream, the file
\* without .gz holding the decompressed content and no compressed copy; a
\* *.json.gz member that is no gzip stream is still there as it was; and
\* every other member that no decompressed file replaces is there with the
\* content it has in the package.
C19_GzMembersDecompressed ==
    [][ /\ frame.pc = "slpk_extract"
        /\ frame.file_path \in DOMAIN fs
        /\ Package.valid
        => /\ frame'.pc = "slpk_detect"
           /\ \A m \in Package.members :
                LET after == fs'[frame.output_dir]
                IN  IF GzMember(m) /\ Packaged(m).enc = "gzip"
                    THEN /\ Ungz(m) \in after.tree
                         /\ ContentOf(after, Ungz(m)) = Data(Packaged(m).data)
                         /\ m \notin after.tree
                    ELSE IF GzMember(m)
                    THEN /\ m \in after.tree
                         /\ ContentOf(after, m) = Packaged(m)
                    ELSE \/ \E g \in Package.members :
                               /\ GzMember(g)
                               /\ Packaged(g).enc = "gzip"
                               /\ Ungz(g) = m
                         \/ /\ m \in after.tree
                            /\ ContentOf(after, m) = Packaged(m)
      ]_vars

\* the uploads that have opened their file, and the path each saves to
Saving == { r \in Requests : req[r].original_path # NoPath }
\* the jobs whose result names a path under uploads/
Placed == { j \in DOMAIN jobs :
              /\ ~jobs[j].result.isNone
              /\ jobs[j].result.url.root \in {"uploads", "i3s"} }

\* C20: two uploads never save to the same path under uploads/, two jobs never
\* have the same saved original, and never the same output file or output
\* directory, also for the same file name within one second; and the
\* directory handle_slpk has just made for its job is a new one, with
\* nothing in it.
C20_PathsUnique ==
    /\ \A r1, r2 \in Saving :
          r1 # r2 => req[r1].original_path # req[r2].original_path
    /\ \A j1, j2 \in DOMAIN tasks :
          j1 # j2 => tasks[j1].file_path # tasks[j2].file_path
    /\ \A j1, j2 \in Placed :
          j1 # j2 => jobs[j1].result.url.name # jobs[j2].result.url.name
    /\ frame.pc = "slpk_extract" => fs[frame.output_dir].tree = {}



\* ------------------------------------------------------------------ C21
\* the sentences error_message may add after the statistics
Tails(T) ==
    { a \o b \o c :
        a \in { "", " JSON files: " \o join(", ", Take(json_files(T), 30)) \o "." },
        b \in { "", " No 'layers/' folders found (expected for valid I3S)." },
        c \in { "", " No I3S metadata files found (service.json, 3dSceneLayer.json, layer.json)." } }

\* the message gives the numbers of directories, files and JSON files of the
\* tree T and the names at its top level
Carries(message, T) ==
    \E tail \in Tails(T) :
        message =
            "SLPK extracted but no I3S entry point found."
            \o " Statistics: " \o ToString(Cardinality(TreeDirs(T))) \o " dirs, "
            \o ToString(Cardinality(T)) \o " files, "
            \o ToString(Cardinality({ p \in TreePaths(T) :
                                        Suffix(p[Len(p)]) = ".json" }))
            \o " JSONs."
            \o " Top-level: " \o join(", ", sorted({ p[1] : p \in T })) \o "."
            \o tail

\* C21: when the package was extracted and no entry point is detected,
\* handle_slpk raises nothing and returns a result tagged
\* slpk_extracted_unrecognized whose message carries the directory, file and
\* JSON-file counts and the top-level entries of the tree; the task then
\* marks the job Error and keeps that result in the record; neither step
\* removes or changes the extracted tree.
C21_UnrecognizedKeepsTree ==
    [][ /\ ( /\ frame.pc = "slpk_detect" /\ frame'.pc = "finish"
             /\ ~I3sDetected(fs[frame.output_dir].tree) )
           => /\ frame'.exc = NoExc
              /\ ~frame'.ret.isNone
              /\ frame'.ret.processing_type = "slpk_extracted_unrecognized"
              /\ frame'.ret.url = Url("i3s", frame.output_dir, "")
              /\ Carries(frame'.ret.message, fs[frame.output_dir].tree)
              /\ frame.output_dir \in DOMAIN fs'
              /\ fs'[frame.output_dir] = fs[frame.output_dir]
        /\ ( /\ frame.pc = "finish" /\ frame'.pc = "idle"
             /\ frame.exc = NoExc
             /\ frame.ret.processing_type = "slpk_extracted_unrecognized" )
           => /\ jobs'[frame.job].status = JobStatus.ERROR
              /\ ~jobs'[frame.job].result.isNone
              /\ ~jobs'[frame.job].result.success
              /\ jobs'[frame.job].result.processing_type
                     = "slpk_extracted_unrecognized"
              /\ jobs'[frame.job].result.url = frame.ret.url
              /\ jobs'[frame.job].result.message = frame.ret.message
              /\ jobs'[frame.job].error = frame.ret.message
              /\ frame.output_dir \in DOMAIN fs'
              /\ fs'[frame.output_dir] = fs[frame.output_dir] ]_vars

\* a job has ended in Error for a package with files in it but no entry
\* point, and its tree is under uploads/
C21_Witness ==
    \E j \in DOMAIN jobs :
        /\ jobs[j].status = JobStatus.ERROR
        /\ jobs[j].result.processing_type = "slpk_extracted_unrecognized"
        /\ jobs[j].result.url.name \in DOMAIN fs
        /\ Cardinality(fs[jobs[j].result.url.name].tree) = 2
        /\ TreeDirs(fs[jobs[j].result.url.name].tree) # {}
        /\ frame.pc = "idle"

\* ------------------------------------------------------------------ C22
\* the six markers of an I3S entry point in the tree T
Marker(T) ==
    \/ <<"3dSceneLayer.json">> \in T
    \/ \E d \in TreeDirs(T) : d[Len(d)] = "SceneServer"
    \/ \E s \in T : /\ s[Len(s)] = "service.json"
                    /\ Append(Parent(s), "layers") \in TreeDirs(T)
    \/ \E d \in TreeDirs(T) :
          /\ Len(d) >= 2 /\ d[Len(d) - 1] = "layers" /\ d[Len(d)] = "0"
          /\ \/ Append(d, "3dSceneLayer.json") \in T
             \/ Append(d, "layer.json") \in T
    \/ \E p \in T : p[Len(p)] = "3dSceneLayer.json"
    \/ \E p \in T : p[Len(p)] = "layer.json"

\* C22: after a successful extraction handle_slpk returns processing type
\* i3s with the URL /i3s/<extraction folder> exactly when the extracted tree
\* has one of the six markers (root-level 3dSceneLayer.json, a SceneServer
\* directory, a service.json with a sibling layers/ folder, a layers/0/
\* directory with 3dSceneLayer.json or layer.json, any 3dSceneLayer.json, any
\* layer.json), and slpk_extracted_unrecognized exactly when it has none.
C22_ReadyIffMarker ==
    [][ (frame.pc = "slpk_detect" /\ frame'.pc = "finish")
        => LET T == fs[frame.output_dir].tree
           IN  /\ frame'.exc = NoExc
               /\ frame'.ret.url = Url("i3s", frame.output_dir, "")
               /\ frame'.ret.processing_type
                      \in {"i3s", "slpk_extracted_unrecognized"}
               /\ (frame'.ret.processing_type = "i3s") <=> Marker(T) ]_vars

\* ------------------------------------------------------------------ C23
\* the task of a .slpk upload that was no zip is at its last step, and the
\* extraction has failed (handle_slpk went through its except branch)
CorruptSlpkEnds ==
    /\ frame.pc = "finish" /\ frame'.pc = "idle"
    /\ frame.file_ext = ".slpk"
    /\ ~req[tasks[frame.job].request].content.valid
    /\ frame.ret.processing_type \notin {"i3s", "slpk_extracted_unrecognized"}

\* C23 as stated: a corrupt .slpk that cannot be extracted ends its job in
\* Error, not in Done, and the extraction directory made for it is removed.
C23_CorruptSlpkIsError ==
    [][ CorruptSlpkEnds
        => /\ jobs'[frame.job].status = JobStatus.ERROR
           /\ frame.output_dir \notin DOMAIN fs' ]_vars

\* C23, amended: a corrupt .slpk that cannot be extracted is not surfaced as
\* an error: the extraction directory is removed, the package is moved to
\* uploads/slpk_<ts>_<name> and the job ends in Done with processing type
\* slpk_raw and the URL of the moved package; the job ends in Error only when
\* the saved upload was no longer there to be moved.
C23_CorruptSlpkServedRaw ==
    [][ CorruptSlpkEnds
        => /\ frame.output_dir \notin DOMAIN fs'
           /\ \/ /\ frame.exc = NoExc
                 /\ jobs'[frame.job].status = JobStatus.DONE
                 /\ jobs'[frame.job].result.success
                 /\ jobs'[frame.job].result.processing_type = "slpk_raw"
                 /\ jobs'[frame.job].result.url.root = "uploads"
                 /\ jobs'[frame.job].result.url.name.prefix = "slpk"
                 /\ jobs'[frame.job].result.url.name.ext = ".slpk"
                 /\ jobs'[frame.job].result.url.name \in DOMAIN fs'
                 /\ frame.file_path \notin DOMAIN fs'
              \/ /\ frame.exc = FileNotFoundError
                 /\ jobs'[frame.job].status = JobStatus.ERROR ]_vars

\* the job of a corrupt .slpk is Done, the raw package is served, and no
\* extraction directory is left
C23_Witness ==
    \E j \in DOMAIN jobs :
        /\ tasks[j].state = "finished"
        /\ tasks[j].file_ext = ".slpk"
        /\ ~req[tasks[j].request].content.valid
        /\ jobs[j].status = JobStatus.DONE
        /\ jobs[j].result.processing_type = "slpk_raw"
        /\ jobs[j].result.url.name \in DOMAIN fs
        /\ \A p \in DOMAIN fs : fs[p].kind # "dir"

\* ------------------------------------------------------------------ C24
\* C24: when a job ends in Error for another reason than an SLPK without an
\* entry point, the saved upload of the job no longer exists and the
\* extraction or conversion directory made for the job has been removed.
C24_ErrorLeavesNothing ==
    [][ ( /\ frame.pc = "finish" /\ frame'.pc = "idle"
          /\ jobs'[frame.job].status = JobStatus.ERROR
          /\ frame.ret.processing_type # "slpk_extracted_unrecognized" )
        => /\ frame.file_path \notin DOMAIN fs'
           /\ frame.output_dir # NoPath => frame.output_dir \notin DOMAIN fs' ]_vars

\* ------------------------------------------------------------------ C25
\* the background task is at the subprocess.run of a converter
AtConverter == frame.pc \in {"py3dtiles", "handle_traditional_3d"}

\* C25: while the task of a job waits for its converter subprocess, a status
\* poll for that job can be served, and it observes the job in Processing.
C25_ConverterWaitYields ==
    AtConverter
    => ENABLED ( /\ poll(frame.job)
                 /\ lastPoll'.body.status = JobStatus.PROCESSING )










\* the candidates of a request that is neither for the service root nor for
\* layers/<id>, in the order they are tried, each directory among them
\* followed by its two entry documents
DirectOrder(T, path) ==
    CASE path \in { <<"nodes", "5">>, <<"layers", "0", "nodes", "5">>,
                    <<"layers", "0", "", "nodes", "5">> } -> Tried(T, path)
      [] path = <<"nodes", "5.json">> ->
           WithEntries(T,
              << <<"nodes", "5.json">>, <<"SceneServer", "nodes", "5.json">>,
                 <<"nodes", "5.json.json">>,
                 <<"SceneServer", "nodes", "5.json.json">>,
                 <<"nodes", "5.json", "index.json">>,
                 <<"SceneServer", "nodes", "5.json", "index.json">>,
                 <<"nodes", "5.json", "3dNodeIndexDocument.json">>,
                 <<"SceneServer", "nodes", "5.json", "3dNodeIndexDocument.json">> >>)
      [] path = <<"layers", "x", "nodes", "5">> ->
           WithEntries(T,
              << <<"layers", "x", "nodes", "5">>,
                 <<"SceneServer", "layers", "x", "nodes", "5">>,
                 <<"layers", "x", "nodes", "5.json">>,
                 <<"SceneServer", "layers", "x", "nodes", "5.json">>,
                 <<"layers", "x", "nodes", "5", "index.json">>,
                 <<"SceneServer", "layers", "x", "nodes", "5", "index.json">>,
                 <<"layers", "x", "nodes", "5", "3dNodeIndexDocument.json">>,
                 <<"SceneServer", "layers", "x", "nodes", "5",
                   "3dNodeIndexDocument.json">> >>)
      [] path = <<"..", "..", "main.py">> ->
           << <<"..", "..", "main.py">>,
              <<"SceneServer", "..", "..", "main.py">>,
              <<"..", "..", "main.py.json">>,
              <<"SceneServer", "..", "..", "main.py.json">>,
              <<"..", "..", "main.py", "index.json">>,
              <<"SceneServer", "..", "..", "main.py", "index.json">>,
              <<"..", "..", "main.py", "3dNodeIndexDocument.json">>,
              <<"SceneServer", "..", "..", "main.py", "3dNodeIndexDocument.json">> >>
      [] path = <<"layers", "0", "", "etc", "passwd">> ->
           WithEntries(T,
              << <<"layers", "0", "etc", "passwd">>,
                 <<"SceneServer", "layers", "0", "etc", "passwd">>,
                 <<"/", "etc", "passwd">>, <<"/", "etc", "passwd">>,
                 <<"layers", "0", "etc", "passwd.json">>,
                 <<"SceneServer", "layers", "0", "etc", "passwd.json">>,
                 <<"/", "etc", "passwd.json">>, <<"/", "etc", "passwd.json">>,
                 <<"layers", "0", "etc", "passwd", "index.json">>,
                 <<"SceneServer", "layers", "0", "etc", "passwd", "index.json">>,
                 <<"layers", "0", "etc", "passwd", "3dNodeIndexDocument.json">>,
                 <<"SceneServer", "layers", "0", "etc", "passwd",
                   "3dNodeIndexDocument.json">>,
                 <<"/", "etc", "passwd", "index.json">>,
                 <<"/", "etc", "passwd", "index.json">>,
                 <<"/", "etc", "passwd", "3dNodeIndexDocument.json">>,
                 <<"/", "etc", "passwd", "3dNodeIndexDocument.json">> >>)
      [] OTHER -> << >>
\* the places of the sequence order that are regular files, as seen from the
\* folder of request i
RegularFiles(i, order) ==
    { k \in DOMAIN order :
        is_file(View(i3sLog[i].uploads, i3sLog[i].slpk_folder).tree, order[k]) }
\* request i was answered 200 with what the file c holds
AnsweredWith(i, c) ==
    LET V == View(i3sLog[i].uploads, i3sLog[i].slpk_folder)
    IN  /\ i3sLog[i].response.status_code = 200
        /\ i3sLog[i].response.content = ContentOf(V, Canon(V.tree, c))

\* request i was answered with the first regular file of its candidates, or,
\* there being none, with nothing but a .gz variant of one of them
FirstRegularFileWins(i) ==
    LET q == i3sLog[i]
        order == DirectOrder(TreeSeen(i), q.path)
        hits == RegularFiles(i, order)
    IN  /\ hits # {} =>
              /\ q.resolved.found
              /\ q.resolved.file = order[FirstOf(hits)]
              /\ AnsweredWith(i, order[FirstOf(hits)])
        /\ hits = {} /\ q.resolved.found =>
              \E k \in DOMAIN order : q.resolved.file = WithName(order[k], ".gz")

\* C26: a request for a path that is neither the service root nor
\* layers/<id> is answered with the first of its candidates, taken in the
\* fixed order literal, SceneServer/, alternate, SceneServer/alternate, the
\* same with .json, then the entry documents inside them, that is a regular
\* file, each candidate that is a directory being looked into for index.json
\* and 3dNodeIndexDocument.json before the next one; a .gz file is served
\* only when none of them is a regular file, whatever .gz files exist.
C26_FirstRegularFileWins ==
    \A i \in Served :
        DirectOrder(TreeSeen(i), i3sLog[i].path) # << >> => FirstRegularFileWins(i)

\* the same for the requests whose first regular file is not an absolute
\* alternate path
FirstRegularFileWinsInside ==
    \A i \in Served :
        LET order == DirectOrder(TreeSeen(i), i3sLog[i].path)
            hits == RegularFiles(i, order)
        IN  /\ order # << >>
            /\ hits # {} => ~IsAbsolute(order[FirstOf(hits)])
            => FirstRegularFileWins(i)



\* ------------------------------------------------------------------ C27
\* job j has ended Ready: Done, with processing type i3s and the URL
\* /i3s/<folder>
ReadyAt(j, folder) ==
    /\ jobs[j].status = JobStatus.DONE
    /\ ~jobs[j].result.isNone
    /\ jobs[j].result.processing_type = "i3s"
    /\ jobs[j].result.url = Url("i3s", folder, "")

\* C27: when the job of an SLPK has ended Ready with the URL /i3s/<folder>,
\* every request for the service root of that folder, made on the tree as
\* the extraction left it, resolves to one of the metadata files and is not
\* answered 404.
C27_ReadyRootResolves ==
    \A j \in DOMAIN jobs, i \in Served :
        /\ ReadyAt(j, i3sLog[i].slpk_folder)
        /\ i3sLog[i].path = << >>
        /\ i3sLog[i].uploads = fs
        => /\ i3sLog[i].resolved.found
           /\ i3sLog[i].response.status_code # 404


\* ------------------------------------------------------------------ C28
\* where the file resolved for request i is, seen from its extraction folder
ServedFrom(i) ==
    Canon(View(i3sLog[i].uploads, i3sLog[i].slpk_folder).tree,
          i3sLog[i].resolved.file)

\* C28: whatever path is asked for, with ".." segments or with an empty
\* segment after layers/<digits>/, a request that is answered with the
\* content of a file is answered from a file of the extraction folder
\* uploads/<folder>; no answer carries the content of a file outside it.
C28_ServedInsideRoot ==
    \A i \in Served :
        i3sLog[i].response.status_code = 200
        => /\ ServedFrom(i) \in TreeSeen(i)
           /\ i3sLog[i].response.content \in
                 { ContentOf(EntrySeen(i), m) : m \in TreeSeen(i) }
                 \cup { Gunzip(ContentOf(EntrySeen(i), m)) : m \in TreeSeen(i) }






\* ------------------------------------------------------------------ C29
\* C29: in every state the record of a job whose status is Done has stage
\* Done, progress 100, a result with success true and no error, and the
\* record of a job whose status is Error has an error text and a message
\* that is not empty.
C29_TerminalRecordConsistent ==
    \A j \in DOMAIN jobs :
        /\ jobs[j].status = JobStatus.DONE
           => /\ jobs[j].stage = JobStage.DONE
              /\ jobs[j].progress = 100
              /\ ~jobs[j].result.isNone
              /\ jobs[j].result.success
              /\ jobs[j].error = None
        /\ jobs[j].status = JobStatus.ERROR
           => /\ jobs[j].error # None
              /\ jobs[j].message # ""

\* one job has ended Done and another has ended Error, in the except branch
C29_Witness ==
    \E j, k \in DOMAIN jobs :
        /\ jobs[j].status = JobStatus.DONE
        /\ jobs[j].result.success
        /\ jobs[k].status = JobStatus.ERROR
        /\ jobs[k].result.isNone
        /\ jobs[k].progress = 0


\* ------------------------------------------------------------------ C30
\* C30: from one update of a job to the next, both made while its status is
\* Processing, the progress of the job does not decrease, whichever handler
\* runs: the point-cloud conversion, the SLPK extraction with or without a
\* recognized entry point, or a direct handler.
C30_ProgressNeverDecreases ==
    [][ \A j \in DOMAIN jobs :
            /\ jobs[j].status = JobStatus.PROCESSING
            /\ jobs'[j].status = JobStatus.PROCESSING
            => jobs'[j].progress >= jobs[j].progress ]_vars

\* the same for every step but the one in which handle_slpk finds no entry
\* point
ProgressNeverDecreasesElsewhere ==
    [][ \A j \in DOMAIN jobs :
            /\ jobs[j].status = JobStatus.PROCESSING
            /\ jobs'[j].status = JobStatus.PROCESSING
            /\ ~( /\ frame.pc = "slpk_detect" /\ frame'.pc = "finish"
                  /\ ~I3sDetected(fs[frame.output_dir].tree) )
            => jobs'[j].progress >= jobs[j].progress ]_vars





====
